---------------------------- MODULE Spec2Model ----------------------------
(***************************************************************************)
(* State-machine model of the heal_be acquisition backends:                *)
(*   EmotiBitService (services/brainflow_service.py), the BrainFlow-bound  *)
(*     session used by the REST routes and the WebSockets;                 *)
(*   EmotiBitDirect  (services/emotibit_direct.py), the TCP line-protocol  *)
(*     client with its data collection thread;                             *)
(*   EmotiBitOSC     (services/emotibit_osc.py), the UDP/OSC listener with *)
(*     its data receiving thread.                                          *)
(* The three classes are process-wide singletons that share no state, so a *)
(* behaviour exercises one of them (sut) and leaves the others as built.   *)
(* Calls into BrainFlow and into the socket library are environment steps: *)
(* every outcome the code handles (normal return, exception) is an input   *)
(* drawn with \E.  Python's None is the string "None".                     *)
(*                                                                         *)
(* and of what consumes their frames:                                      *)
(*   HRVProcessor (services/hrv_processor.py): its PPG buffer, and its     *)
(*     methods as functions of their arguments;                            *)
(*   websocket_endpoint (api/websocket.py), the loop of a realtime client. *)
(*                                                                         *)
(* Specifications: Spec (the three sessions), SpecData (the socket         *)
(* sessions with per-sample bookkeeping), SpecBuffer (the buffers alone),  *)
(* SpecCalc (the processor's methods and one _extract_emotibit_sensors     *)
(* call), SpecTick (the realtime loop), SpecExtract (repeated              *)
(* _extract_emotibit_sensors calls), SpecRestart (the socket sessions with *)
(* a second worker thread, under fairness of the threads), SpecParse (a    *)
(* connected session whose workers parse line by line), SpecTickLive (the  *)
(* realtime loop, its passes fair), SpecClients (the connection manager    *)
(* and the WebSocket handlers that register with it), SpecControl (the     *)
(* control WebSocket's commands).                                          *)
(***************************************************************************)
EXTENDS Integers, Sequences, FiniteSets

VARIABLES
    settings,    \* config.settings.settings: the two flags connect() reads
    sut,         \* which singleton this behaviour exercises
    svc,         \* EmotiBitService fields, plus the BrainFlow sessions left open
    ss,          \* a start_streaming() call of EmotiBitService asleep at line 130
    dev,         \* fields of the socket session under test (EmotiBitDirect or
                 \* EmotiBitOSC, by sut), plus the sockets opened and not closed
    sensor_data, \* its sensor_data deques, holding sample ids
    threads,     \* its worker threads (data_thread and any earlier one still alive)
    pc,          \* where its caller is: idle, or blocked in data_thread.join()
    nextId,      \* id of the next sample a worker stores (arrival order)
    typeOf,      \* sensor type of every sample stored so far
    delivered,   \* in how many returned frames each sample has appeared
    polledUpTo,  \* newest sample id that existed at the latest returned frame
    frame,       \* what the latest get_current_data() returned
    track,       \* whether this behaviour keeps the per-sample bookkeeping
    last,        \* the latest completed call: operation, result, state before it
    hrv,         \* HRVProcessor fields (services/hrv_processor.py)
    calc,        \* the latest call of an HRVProcessor method: input and result
    tick,        \* the loop of one realtime WebSocket client and its last message
    work,        \* per worker thread: the lines of its packet still to parse and
                 \* the time.time() it has read for the line in hand
    extracted,   \* the latest calls of _extract_emotibit_sensors, newest last
    clients      \* manager.active_connections and the WebSocket handlers

svcVars   == <<svc, ss>>
devVars   == <<dev, sensor_data, threads, pc>>
ghostVars == <<nextId, typeOf, delivered, polledUpTo, track>>
procVars  == <<hrv, calc, tick>>
sideVars  == <<work, extracted, clients>>
sessionVars == <<settings, sut, svc, ss, dev, sensor_data, threads, pc, nextId,
                 typeOf, delivered, polledUpTo, frame, track, last>>
vars == <<settings, sut, svc, ss, dev, sensor_data, threads, pc, nextId,
          typeOf, delivered, polledUpTo, frame, track, last, hrv, calc, tick,
          work, extracted, clients>>

(***************************************************************************)
(* Bounds of the model.                                                    *)
(***************************************************************************)
\* BrainFlow sessions / sockets that may be open at once before connect is cut off
MaxOpen == 2
\* samples the workers store in one behaviour
MaxSamples == 2
\* per-sensor deque capacity (deque(maxlen=250) scaled down)
BufCap == 2
\* samples one poll returns per sensor (the [-10:] slice scaled down)
Window == 1
\* worker threads that may be alive at once
MaxThreads == 1
\* PPG entries added to the processor's buffer in one behaviour, and per call
MaxAdded == 6
\* lines stored by _parse_emotibit_data where it is called on its own
MaxStored == 4
\* peaks handed to calculate_rr_intervals
MaxPeaks == 6
\* R-R intervals handed to calculate_hrv_metrics
MaxRR == 5
MaxBatch == 2

Backends == {"service", "direct", "osc"}
SensorTypes == {"ppg", "eda"}
SampleIds == 1..MaxSamples

Min(a, b) == IF a < b THEN a ELSE b
Max(a, b) == IF a > b THEN a ELSE b


(***************************************************************************)
(* Observation of the latest completed call.                               *)
(***************************************************************************)
NoFrame == [ppg |-> <<>>, eda |-> <<>>, timestamp |-> <<>>]

\* op, backend: the method and the class; ret: what it returned; preConn,
\* preStream: whether the session was connected / streaming when it was called;
\* sent: commands it handed to the socket; started: threads it started;
\* attempts: what connect() tried, in order; n: samples in the frame returned.
Called(op, backend, ret, preConn, preStream, sent, started, attempts) ==
    [op |-> op, backend |-> backend, ret |-> ret, preConn |-> preConn,
     preStream |-> preStream, sent |-> sent, started |-> started,
     attempts |-> attempts, n |-> 0]

Polled(backend, ret, preConn, preStream, f) ==
    [Called("get_current_data", backend, ret, preConn, preStream, 0, 0, <<>>)
        EXCEPT !.n = Len(f.ppg) + Len(f.eda)]

(***************************************************************************)
(* EmotiBitService (services/brainflow_service.py).                        *)
(* board is "None", a prepared BoardShim ("hardware", "synthetic") or the  *)
(* string "mock_board"; open counts the BrainFlow sessions that were       *)
(* prepared and never released (BoardShim has no finalizer, so a dropped   *)
(* handle stays prepared).                                                 *)
(***************************************************************************)
ServiceInit ==
    [board |-> "None", is_streaming |-> FALSE, board_id |-> "EMOTIBIT_BOARD",
     is_mock_mode |-> FALSE, open |-> 0]

Attempt(kind, ok) == [kind |-> kind, ok |-> ok]

\* One call's outcome: the fields after it, the value returned, the backends tried.
Result(s, ret, attempts) == [s |-> s, ret |-> ret, attempts |-> attempts]

IsBoardShim(b) == b \in {"hardware", "synthetic"}

Service_setup_mock_board(s) ==
    Result([s EXCEPT !.board = "mock_board", !.board_id = "MOCK",
                     !.is_mock_mode = TRUE],
           "True", <<Attempt("mock", TRUE)>>)

\* syn: "ok", or "raises" when BoardShim(...) or prepare_session() raises.
Service_setup_synthetic_board(s, syn) ==
    IF syn = "ok"
    THEN Result([s EXCEPT !.board = "synthetic", !.board_id = "SYNTHETIC_BOARD",
                          !.open = @ + 1],
                "True", <<Attempt("synthetic", TRUE)>>)
    ELSE LET m == Service_setup_mock_board(s)
         IN  [m EXCEPT !.attempts = <<Attempt("synthetic", FALSE)>> \o @]

\* connect() that goes to the synthetic board whatever the settings say.
UseSyntheticFirst_always(cfg) == TRUE

\* The flags that send connect() straight to the synthetic board (line 28).
UseSyntheticFirst(cfg) == cfg.IS_PRODUCTION \/ cfg.ENABLE_SYNTHETIC_DATA

\* hw: "ok"; "prepare_raises" (self.board already holds the new BoardShim);
\* "ctor_raises" (self.board still holds the previous handle).
\* rel: whether release_session() in the except branch returns normally and
\* releases a session: the previous one through its own handle, or, since
\* BrainFlow finds a session by board id and parameters, through the new shim.
Service_connect(s, cfg, hw, syn, rel) ==
    IF UseSyntheticFirst(cfg)
    THEN Service_setup_synthetic_board(s, syn)
    ELSE IF hw = "ok"
    THEN Result([s EXCEPT !.board = "hardware", !.open = @ + 1],
                "True", <<Attempt("hardware", TRUE)>>)
    ELSE LET released == /\ rel
                         /\ s.open > 0
                         /\ hw = "prepare_raises" \/ IsBoardShim(s.board)
             s1 == [s EXCEPT !.board = "None",
                             !.open = IF released THEN @ - 1 ELSE @]
         IN  IF cfg.ENABLE_SYNTHETIC_DATA
             THEN LET f == Service_setup_synthetic_board(s1, syn)
                  IN  [f EXCEPT !.attempts = <<Attempt("hardware", FALSE)>> \o @]
             ELSE Result(s1, "False", <<Attempt("hardware", FALSE)>>)

\* Lines 107-125: up to the sleep.  ret "Suspended" = asleep at line 130.
\* st: outcome of board.start_stream(45000).
Service_start_streaming(s, st) ==
    IF s.board = "None" THEN Result(s, "False", <<>>)
    ELSE IF s.is_mock_mode
    THEN Result([s EXCEPT !.is_streaming = TRUE], "True", <<>>)
    ELSE IF IsBoardShim(s.board) /\ st = "ok"
    THEN Result([s EXCEPT !.is_streaming = TRUE], "Suspended", <<>>)
    ELSE Result(s, "False", <<>>)

\* Lines 132-143: after the sleep.  gd: outcome of board.get_current_board_data(10);
\* on None or on the mock string the attribute lookup raises.
Service_start_streaming_resume(s, gd) ==
    IF IsBoardShim(s.board) /\ gd = "ok"
    THEN Result(s, "True", <<>>)
    ELSE Result(s, "False", <<>>)

\* sp: outcome of board.stop_stream(); the mock string has no such method.
Service_stop_streaming(s, sp) ==
    IF s.board # "None" /\ s.is_streaming /\ IsBoardShim(s.board) /\ sp = "ok"
    THEN [s EXCEPT !.is_streaming = FALSE]
    ELSE s

\* rl: outcome of board.release_session(); the mock string has no such method.
Service_disconnect(s, sp, rl) ==
    LET s1 == Service_stop_streaming(s, sp)
    IN  IF s1.board # "None" /\ IsBoardShim(s1.board) /\ rl = "ok"
        THEN [s1 EXCEPT !.board = "None", !.open = @ - 1]
        ELSE s1

\* A frame of the service: the samples come from BrainFlow (or the mock
\* generator) and carry no identity here; 0 stands for one of them.
ServiceFrame(n) ==
    [ppg |-> [i \in 1..n |-> 0], eda |-> [i \in 1..n |-> 0],
     timestamp |-> [i \in 1..n |-> 0]]

\* n: how many samples BrainFlow has for the presets (0 = none yet).
Service_get_current_data(s, n) ==
    IF s.board = "None" \/ ~s.is_streaming THEN [ret |-> "None", frame |-> NoFrame]
    ELSE IF s.is_mock_mode THEN [ret |-> "Frame", frame |-> ServiceFrame(Window)]
    ELSE [ret |-> "Frame", frame |-> ServiceFrame(n)]

ServiceConnected(s) == s.board # "None"
ServiceStreaming(s) == s.board # "None" /\ s.is_streaming


(***************************************************************************)
(* EmotiBitDirect (services/emotibit_direct.py) and EmotiBitOSC            *)
(* (services/emotibit_osc.py).  Both hold socket, connected, streaming,    *)
(* data_thread, stop_event and sensor_data; dev models whichever of the    *)
(* two sut names.  data_thread is a thread slot, 0 for None.  open counts  *)
(* the sockets created and never passed to close().                        *)
(***************************************************************************)
DevInit ==
    [socket |-> "None", connected |-> FALSE, streaming |-> FALSE,
     device_ip |-> "None", stop_event |-> FALSE, data_thread |-> 0, open |-> 0]

\* A call's outcome on a socket session; sent = commands handed to the socket.
DevResult(s, ret, attempts, sent) ==
    [s |-> s, ret |-> ret, attempts |-> attempts, sent |-> sent]

common_ips == <<"192.168.0.187", "192.168.1.187", "10.0.0.187">>

\* _send_command / _send_osc_message: nothing is sent without a socket.
Sends(s, n) == IF s.socket = "None" THEN 0 ELSE n

\* ok: whether socket.connect() returns.  The socket created at line 108
\* replaces self.socket; a previous one is dropped without close().
Direct_try_connect(s, ip, ok) ==
    IF ok
    THEN DevResult([s EXCEPT !.socket = "open", !.open = @ + 1,
                             !.device_ip = ip, !.connected = TRUE],
                   "True", <<Attempt(ip, TRUE)>>, 1)
    ELSE DevResult([s EXCEPT !.socket = "None"], "False",
                   <<Attempt(ip, FALSE)>>, 0)

\* The loop over common_ips (lines 89-94); firstOk = index of the first
\* address that accepts, 0 when none does.
RECURSIVE TryCommonIps(_, _, _)
TryCommonIps(s, i, firstOk) ==
    IF i > Len(common_ips)
    THEN DevResult(s, "False", <<>>, 0)
    ELSE LET r == Direct_try_connect(s, common_ips[i], i = firstOk)
         IN  IF r.ret = "True" THEN r
             ELSE LET rest == TryCommonIps(r.s, i + 1, firstOk)
                  IN  [rest EXCEPT !.attempts = r.attempts \o @]

\* given: an ip_address argument was passed; found: discovery answered;
\* finalOk: whether the connect of line 100 succeeds.
Direct_connect(s, given, found, firstOk, finalOk) ==
    IF s.connected THEN DevResult(s, "True", <<>>, 0)
    ELSE IF given THEN Direct_try_connect(s, "given", finalOk)
    ELSE IF found THEN Direct_try_connect(s, "discovered", finalOk)
    ELSE LET c == TryCommonIps(s, 1, firstOk)
         IN  IF c.ret # "True" THEN c
             ELSE LET ip == c.attempts[Len(c.attempts)].kind
                      f  == Direct_try_connect(c.s, ip, finalOk)
                  IN  [f EXCEPT !.attempts = c.attempts \o @,
                                !.sent = c.sent + @]

\* Inputs the call does not read are fixed, so that each run of connect()
\* is drawn once.
ConnectInputRead(s, given, found, firstOk, finalOk) ==
    /\ s.connected => ~given /\ ~found /\ firstOk = 0 /\ ~finalOk
    /\ given => ~found
    /\ (given \/ found) => firstOk = 0
    /\ (~given /\ ~found /\ firstOk = 0) => ~finalOk

\* ok: whether socket.bind() returns.  No check of self.connected.
OSC_connect(s, ok) ==
    IF ok
    THEN DevResult([s EXCEPT !.socket = "open", !.open = @ + 1,
                             !.connected = TRUE],
                   "True", <<Attempt("oscilloscope", TRUE)>>, 1)
    ELSE DevResult([s EXCEPT !.socket = "None"], "False",
                   <<Attempt("oscilloscope", FALSE)>>, 0)

\* Commands start_streaming sends: 8 lines (Direct), 6 OSC messages.
StartCommands(cls) == IF cls = "direct" THEN 8 ELSE 6
\* Commands stop_streaming sends while connected.
StopCommands(cls) == IF cls = "direct" THEN 2 ELSE 1

\* start_streaming without the test of self.connected.
Dev_start_streaming_unguarded(cls, s, slot) ==
    IF s.streaming THEN DevResult(s, "True", <<>>, 0)
    ELSE DevResult([s EXCEPT !.stop_event = FALSE, !.data_thread = slot,
                             !.streaming = TRUE],
                   "Started", <<>>, Sends(s, StartCommands(cls)))

\* slot: the thread the call starts.  ret "Started" = True with a new thread.
Dev_start_streaming(cls, s, slot) ==
    IF ~s.connected THEN DevResult(s, "False", <<>>, 0)
    ELSE IF s.streaming THEN DevResult(s, "True", <<>>, 0)
    ELSE DevResult([s EXCEPT !.stop_event = FALSE, !.data_thread = slot,
                             !.streaming = TRUE],
                   "Started", <<>>, Sends(s, StartCommands(cls)))

\* stop_streaming that sets the stop event and forgets the streaming flag.
\* Lines 315-316 that clear the flag and leave stop_event alone.
Dev_stop_streaming_signal_no_event(s) ==
    IF s.streaming THEN [s EXCEPT !.streaming = FALSE] ELSE s

Dev_stop_streaming_signal_flag_kept(s) ==
    IF s.streaming THEN [s EXCEPT !.stop_event = TRUE] ELSE s

\* stop_streaming up to data_thread.join(timeout=2).
Dev_stop_streaming_signal(s) ==
    IF s.streaming THEN [s EXCEPT !.streaming = FALSE, !.stop_event = TRUE]
    ELSE s

\* stop_streaming after the join: the stop commands, if still connected.
Dev_stop_streaming_sent(cls, s) ==
    IF s.connected THEN Sends(s, StopCommands(cls)) ELSE 0

\* disconnect() after its stop_streaming(): goodbye, close, forget.
Dev_disconnect_release(cls, s) ==
    [s EXCEPT !.socket = "None",
              !.open = IF s.socket = "None" THEN @ ELSE @ - 1,
              !.connected = FALSE,
              !.device_ip = IF cls = "direct" THEN "None" ELSE @]

DevConnected(s) == s.connected
DevStreaming(s) == s.connected /\ s.streaming


(***************************************************************************)
(* sensor_data: one bounded deque per sensor type and one of timestamps.   *)
(* A stored sample {'timestamp': ..., 'value': ...} is its arrival id.     *)
(***************************************************************************)
SensorDataInit == [ppg |-> <<>>, eda |-> <<>>, timestamps |-> <<>>]

\* A deque that refuses the new entry when full instead of dropping its oldest.
deque_append_keep_oldest(q, x, maxlen) ==
    IF Len(q) >= maxlen THEN q ELSE q \o <<x>>

\* deque(maxlen=maxlen).append(x)
deque_append(q, x, maxlen) ==
    IF Len(q) >= maxlen THEN Tail(q) \o <<x>> ELSE q \o <<x>>

\* deque(maxlen=BufCap).append(x)
DequeAppend(q, x) == deque_append(q, x, BufCap)

\* list(q)[:n], the oldest n samples instead of the newest.
FirstN(q, n) == SubSeq(q, 1, Min(n, Len(q)))

\* list(q)[-n:]
LastN(q, n) == SubSeq(q, Max(1, Len(q) - n + 1), Len(q))

Range(q) == {q[i] : i \in 1..Len(q)}

\* One well-formed line of sensor type t: the sample and its timestamp.
StoreSample(sd, t, id) ==
    [sd EXCEPT ![t] = DequeAppend(@, id),
               !.timestamps = DequeAppend(@, id)]

\* The dict get_current_data builds from the deques (lines 290-305 / 250-265).
FrameOf(sd) ==
    [ppg |-> LastN(sd.ppg, Window), eda |-> LastN(sd.eda, Window),
     timestamp |-> LastN(sd.timestamps, Window)]

Dev_get_current_data(s, sd) ==
    IF ~s.streaming THEN [ret |-> "None", frame |-> NoFrame]
    ELSE [ret |-> "Frame", frame |-> FrameOf(sd)]

FrameSamples(f) == Range(f.ppg) \cup Range(f.eda)

\* Ghost bookkeeping of a returned frame: one more delivery (counted up to 2)
\* of each sample in it.
Deliver(d, f) ==
    [id \in SampleIds |->
        IF id \in FrameSamples(f) THEN Min(2, d[id] + 1) ELSE d[id]]

\* A worker thread is not running ("dead"), at the head of its loop or in
\* recv ("loop"), or holds a received packet it has not parsed yet ("parse").
ThreadDead == "dead"
ThreadLoop == "loop"
ThreadParse == "parse"
ThreadSlots == DOMAIN threads
FreeSlots == {i \in ThreadSlots : threads[i] = ThreadDead}

\* The while condition of the worker loop, and the socket test under it.
WorkerGoesOn(s) == ~s.stop_event /\ s.connected /\ s.socket # "None"

Idle == [at |-> "idle", preConn |-> FALSE, preStream |-> FALSE]

\* A worker outside _parse_emotibit_data / _parse_osc_data: no line in hand.
Resting == [lines |-> <<>>, current_time |-> 0]
NoWork == [i \in 1..MaxThreads |-> Resting]

(***************************************************************************)
(* HRVProcessor (services/hrv_processor.py).  ppg_buffer holds twice       *)
(* BUFFER_SIZE entries; BufCap stands for BUFFER_SIZE and for the equal    *)
(* maxlen of the sessions' deques.  arrived lists every entry ever added   *)
(* (bookkeeping, no field of the class).                                   *)
(***************************************************************************)
PpgCap == 2 * BufCap
PpgLevels == {0, 1}

HRVInit == [ppg_buffer |-> <<>>, arrived |-> <<>>]

\* add_ppg_data, lines 26-27: one append per pair of zip(ppg_data, timestamps).
RECURSIVE HRV_add_ppg_data(_, _, _)
HRV_add_ppg_data(h, ppg_data, timestamps) ==
    IF ppg_data = <<>> \/ timestamps = <<>> THEN h
    ELSE LET e == [ppg |-> Head(ppg_data), timestamp |-> Head(timestamps)]
         IN  HRV_add_ppg_data(
                 [ppg_buffer |-> deque_append(h.ppg_buffer, e, PpgCap),
                  arrived |-> Append(h.arrived, e)],
                 Tail(ppg_data), Tail(timestamps))

\* Line 72 with the two ends of the range left out.
Plausible_open(rr_interval) == 300 < rr_interval /\ rr_interval < 2000

\* Line 72: 300 <= rr_interval <= 2000
Plausible(rr_interval) == 300 <= rr_interval /\ rr_interval <= 2000

\* calculate_rr_intervals, lines 67-73: the loop from peak i on.  Timestamps
\* are in thousandths of a second, so that a difference is the interval
\* in ms of line 69.
RECURSIVE RRLoop(_, _, _)
RRLoop(peaks, timestamps, i) ==
    IF i > Len(peaks) THEN <<>>
    ELSE LET rr_interval == timestamps[peaks[i]] - timestamps[peaks[i - 1]]
         IN  (IF Plausible(rr_interval) THEN <<rr_interval>> ELSE <<>>)
                 \o RRLoop(peaks, timestamps, i + 1)

HRV_calculate_rr_intervals(peaks, timestamps) ==
    IF Len(peaks) < 2 THEN <<>> ELSE RRLoop(peaks, timestamps, 2)

(***************************************************************************)
(* Arithmetic.  The floats of the code are fixed-point integers here:      *)
(* values printed with one decimal are held in tenths.  round(x, 1) is the *)
(* nearest tenth, an exact half going to the even neighbour; the binary    *)
(* representation error of a float is not modelled.                        *)
(***************************************************************************)
Abs(x) == IF x < 0 THEN -x ELSE x

\* Rounding towards minus infinity instead of to the nearest.
RoundDiv_floor(num, den) == num \div den

\* round(num / den) for den > 0.
RoundDiv(num, den) ==
    LET q == num \div den
        r == num % den
    IN  IF 2 * r < den THEN q
        ELSE IF 2 * r > den THEN q + 1
        ELSE IF q % 2 = 0 THEN q ELSE q + 1

\* floor(c * num / den) for num >= 0, den > 0, without the product c * num.
ScaledFloor(c, num, den) == c * (num \div den) + (c * (num % den)) \div den

\* floor(sqrt(n)) by bisection: lo * lo <= n < hi * hi throughout.
RECURSIVE IsqrtBetween(_, _, _)
IsqrtBetween(n, lo, hi) ==
    IF hi - lo <= 1 THEN lo
    ELSE LET mid == (lo + hi) \div 2
         IN  IF mid * mid <= n THEN IsqrtBetween(n, mid, hi)
             ELSE IsqrtBetween(n, lo, mid)

Isqrt(n) == IsqrtBetween(n, 0, 46340)

\* k * sqrt(num / den) cut off instead of rounded.
RoundSqrt_floor(k, num, den) == Isqrt(ScaledFloor(k * k, num, den))

\* round(k * sqrt(num / den)): the r with (2r - 1)^2 <= 4 k^2 num / den < (2r + 1)^2.
RoundSqrt(k, num, den) == (Isqrt(ScaledFloor(4 * k * k, num, den)) + 1) \div 2

RECURSIVE SumSeq(_)
SumSeq(s) == IF s = <<>> THEN 0 ELSE Head(s) + SumSeq(Tail(s))

\* n^2 times the sum of squared deviations from the mean; with np.std,
\* np.std(a) ** 2 = SqDev(a) / n^3.
SqDev(a) ==
    LET n == Len(a)
        s == SumSeq(a)
    IN  SumSeq([i \in 1..n |-> (n * a[i] - s) * (n * a[i] - s)])

\* sum(np.diff(a) ** 2)
SqDiff(a) ==
    SumSeq([i \in 1..(Len(a) - 1) |-> (a[i + 1] - a[i]) * (a[i + 1] - a[i])])

\* No clamping at all.
Clamp_none(lo, hi, x) == x

Clamp(lo, hi, x) == Max(lo, Min(hi, x))

\* The empty dict calculate_hrv_metrics returns for fewer than 5 intervals.
NoMetrics == [returned |-> "{}"]

\* calculate_hrv_metrics, lines 79-103; numbers in tenths.
HRV_calculate_hrv_metrics(rr_intervals) ==
    LET n == Len(rr_intervals)
        total == SumSeq(rr_intervals)
        n3 == n * n * n
    IN  IF n < 5 THEN NoMetrics
        ELSE [returned |-> "metrics",
              heart_rate |-> IF total > 0 THEN RoundDiv(600000 * n, total) ELSE 0,
              mean_rr |-> RoundDiv(10 * total, n),
              sdnn |-> RoundSqrt(10, SqDev(rr_intervals), n3),
              rmssd |-> RoundSqrt(10, SqDiff(rr_intervals), n - 1),
              stress_score |->
                  Clamp(0, 1000, 1000 - RoundSqrt(20, SqDev(rr_intervals), n3)),
              hrv_quality |-> IF SqDev(rr_intervals) > 400 * n3
                              THEN "good" ELSE "low"]

(***************************************************************************)
(* process_realtime_data.  Units: heart_rate, ppg_signal_quality, ppg_mean *)
(* and stress_score in tenths; EDA samples in 1e-4, eda_level in 1e-6      *)
(* (round(.., 6)); temperature in hundredths.  The                         *)
(* argument lists the sensor lists, the lists that hold something numpy    *)
(* cannot average (bad), whether debug_info is there, and whether the      *)
(* argument is a dict at all.                                              *)
(***************************************************************************)
\* Lines 216-223 without the test eda_level > 0.
StressScore_unguarded(eda_level, heart_rate) ==
    LET stress_from_eda == 10 * Min(100000, eda_level)
        stress_from_hr ==
            IF heart_rate > 600 THEN 1000 * Max(0, (heart_rate - 600) * 2) ELSE 0
    IN  RoundDiv(Clamp(0, 2000000, stress_from_eda + stress_from_hr), 2000)

\* Lines 216-223.  The two parts are held in 1e-4 points, so their sum is
\* twice the score: min(100, eda_level * 1000) is 10 * min(0.1, eda_level).
StressScore(eda_level, heart_rate) ==
    LET stress_from_eda ==
            IF eda_level > 0 THEN 10 * Min(100000, eda_level) ELSE 0
        stress_from_hr ==
            IF heart_rate > 600 THEN 1000 * Max(0, (heart_rate - 600) * 2) ELSE 0
    IN  RoundDiv(Clamp(0, 2000000, stress_from_eda + stress_from_hr), 2000)

\* np.std(a) if len(a) > 1 else 0, held as the number under the root:
\* the deviation is sqrt(num / den) in the unit of a.
StdOf(a) ==
    IF Len(a) > 1 THEN [num |-> SqDev(a), den |-> Len(a) * Len(a) * Len(a)]
    ELSE [num |-> 0, den |-> 1]

\* Lines 134-164: heart_rate, ppg_signal_quality and, when computed, ppg_mean.
PpgMetrics(sd) ==
    LET a == sd.ppg
        n == Len(a)
        total == SumSeq(a)
        \* ppg_std / ppg_mean = sqrt(SqDev / (n * total^2)) for ppg_mean > 0
        ratio(k) == IF n > 1 THEN RoundSqrt(k, SqDev(a), n * total * total) ELSE 0
    IN  IF a = <<>> \/ "ppg" \in sd.bad
        THEN [computed |-> FALSE, heart_rate |-> 0, ppg_signal_quality |-> 0,
              ppg_mean |-> 0]
        ELSE [computed |-> TRUE,
              heart_rate |->
                  Clamp(400, 1800, IF total > 0 THEN 600 + ratio(400) ELSE 0),
              ppg_signal_quality |-> IF total > 0 THEN ratio(1000) ELSE 0,
              ppg_mean |-> RoundDiv(10 * total, n)]

\* Lines 167-190.  eda_variation is left as StdOf gives it (in 1e-4).
EdaMetrics(sd) ==
    IF sd.eda = <<>> \/ "eda" \in sd.bad
    THEN [eda_level |-> 0, eda_variation |-> StdOf(<<>>)]
    ELSE [eda_level |-> RoundDiv(100 * SumSeq(sd.eda), Len(sd.eda)),
          eda_variation |-> StdOf(sd.eda)]

\* Lines 193-208.
TemperatureMetric(sd) ==
    IF sd.temperature = <<>> \/ "temperature" \in sd.bad THEN 0
    ELSE RoundDiv(SumSeq(sd.temperature), Len(sd.temperature))

\* The dict returned.  A quotient the code leaves unrounded is held as
\* numerator and denominator; ppg_mean is "absent" when the PPG block did
\* not set it, data_info is whether that entry was added (lines 237-243).
\* The stress block's own except (line 226) has nothing that can raise on
\* the numbers the blocks above leave in current_metrics.
HRV_process_realtime_data(sd) ==
    IF ~sd.is_dict
    THEN [status |-> "error", heart_rate |-> 0, eda_level |-> 0,
          temperature |-> 0, stress_score |-> 0]
    ELSE IF sd.ppg = <<>> /\ sd.eda = <<>>
    THEN [status |-> "no_sensor_data",
          message |-> "No PPG or EDA data available"]
    ELSE LET p == PpgMetrics(sd)
             e == EdaMetrics(sd)
             stress == StressScore(e.eda_level, p.heart_rate)
             sdnn == [num |-> p.ppg_signal_quality, den |-> 2]
             rmssd == [num |-> p.ppg_signal_quality, den |-> 3]
         IN  [status |-> "processing",
              heart_rate |-> p.heart_rate,
              ppg_signal_quality |-> p.ppg_signal_quality,
              ppg_mean |-> IF p.computed THEN p.ppg_mean ELSE "absent",
              eda_level |-> e.eda_level,
              eda_variation |-> e.eda_variation,
              temperature |-> TemperatureMetric(sd),
              stress_score |-> stress,
              sdnn |-> sdnn,
              rmssd |-> rmssd,
              data_info |-> sd.debug_info]

NoCalc == [fn |-> "none"]
NoTick == [loop |-> "none"]

\* How many WebSocket connections are followed at once.
MaxSockets == 3
Sockets == 1..MaxSockets
\* The ids the two endpoints can form, and the id of no handler.  An id
\* that is not a key of active_connections maps to 0, which is no socket.
ClientIds == [kind : {"client", "control"}, n : 0..(MaxSockets - 1)]
NoId == [kind |-> "none", n |-> 0]
NoHandler == [at |-> "none", client_id |-> NoId, peer |-> "none"]
\* ConnectionManager.__init__, line 22, and no handler running.
NoClients == [active_connections |-> [k \in ClientIds |-> 0],
              handlers |-> [w \in Sockets |-> NoHandler]]
NotAsleep == [pending |-> FALSE, preConn |-> FALSE, preStream |-> FALSE]

NoCall == Called("none", "none", "None", FALSE, FALSE, 0, 0, <<>>)

Init ==
    /\ sut \in Backends
    /\ settings \in [ENABLE_SYNTHETIC_DATA : BOOLEAN, IS_PRODUCTION : BOOLEAN]
    /\ (sut # "service" =>
            settings = [ENABLE_SYNTHETIC_DATA |-> FALSE, IS_PRODUCTION |-> FALSE])
    /\ svc = ServiceInit
    /\ ss = NotAsleep
    /\ dev = DevInit
    /\ sensor_data = SensorDataInit
    /\ threads = [i \in 1..MaxThreads |-> ThreadDead]
    /\ pc = Idle
    /\ nextId = 1
    /\ typeOf = [id \in SampleIds |-> "none"]
    /\ delivered = [id \in SampleIds |-> 0]
    /\ polledUpTo = 0
    /\ frame = NoFrame
    /\ track = FALSE
    /\ last = NoCall
    /\ hrv = HRVInit
    /\ calc = NoCalc
    /\ tick = NoTick
    /\ work = NoWork
    /\ extracted = <<>>
    /\ clients = NoClients

HwOutcomes == {"ok", "prepare_raises", "ctor_raises"}
Outcomes == {"ok", "raises"}

(***************************************************************************)
(* Calls on EmotiBitService: from the REST routes (api/routes.py), the     *)
(* control WebSocket (handle_control_command) and the realtime WebSocket.  *)
(* Each runs to its next suspension point; only start_streaming has one.   *)
(***************************************************************************)
CallServiceConnect ==
    /\ sut = "service"
    /\ \E hw \in HwOutcomes, syn \in Outcomes, rel \in BOOLEAN :
         LET r == Service_connect(svc, settings, hw, syn, rel)
         IN  /\ r.s.open <= MaxOpen
             /\ svc' = r.s
             /\ last' = Called("connect", "service", r.ret,
                               ServiceConnected(svc), ServiceStreaming(svc),
                               0, 0, r.attempts)
    /\ UNCHANGED <<sideVars, procVars, settings, sut, ss, devVars, ghostVars, frame>>

\* The part of a start_streaming call up to its return or its sleep.
BeginStartStreaming(s, st) ==
    LET r == Service_start_streaming(s, st)
    IN  /\ svc' = r.s
        /\ ss' = IF r.ret = "Suspended"
                 THEN [pending |-> TRUE, preConn |-> ServiceConnected(s),
                       preStream |-> ServiceStreaming(s)]
                 ELSE ss
        /\ last' = Called("start_streaming", "service", r.ret,
                          ServiceConnected(s), ServiceStreaming(s), 0, 0, <<>>)

CallServiceStartStreaming ==
    /\ sut = "service"
    /\ ~ss.pending
    /\ \E st \in Outcomes : BeginStartStreaming(svc, st)
    /\ UNCHANGED <<sideVars, procVars, settings, sut, devVars, ghostVars, frame>>

ServiceStartStreamingResume ==
    /\ sut = "service"
    /\ ss.pending
    /\ \E gd \in Outcomes :
         LET r == Service_start_streaming_resume(svc, gd)
         IN  /\ svc' = r.s
             /\ last' = Called("start_streaming", "service", r.ret,
                               ss.preConn, ss.preStream, 0, 0, <<>>)
    /\ ss' = NotAsleep
    /\ UNCHANGED <<sideVars, procVars, settings, sut, devVars, ghostVars, frame>>

CallServiceStopStreaming ==
    /\ sut = "service"
    /\ \E sp \in Outcomes :
         svc' = Service_stop_streaming(svc, sp)
    /\ last' = Called("stop_streaming", "service", "Void",
                      ServiceConnected(svc), ServiceStreaming(svc), 0, 0, <<>>)
    /\ UNCHANGED <<sideVars, procVars, settings, sut, ss, devVars, ghostVars, frame>>

CallServiceDisconnect ==
    /\ sut = "service"
    /\ \E sp \in Outcomes, rl \in Outcomes :
         svc' = Service_disconnect(svc, sp, rl)
    /\ last' = Called("disconnect", "service", "Void",
                      ServiceConnected(svc), ServiceStreaming(svc), 0, 0, <<>>)
    /\ UNCHANGED <<sideVars, procVars, settings, sut, ss, devVars, ghostVars, frame>>

\* The poll of the REST snapshot route and of every tick of the realtime loop.
CallServiceGetCurrentData ==
    /\ sut = "service"
    /\ \E n \in {0, Window} :
         LET r == Service_get_current_data(svc, n)
         IN  /\ frame' = IF track THEN r.frame ELSE frame
             /\ last' = Polled("service", r.ret, ServiceConnected(svc),
                               ServiceStreaming(svc), r.frame)
    /\ UNCHANGED <<sideVars, procVars, settings, sut, svcVars, devVars, ghostVars>>

\* websocket_endpoint lines 68-77: a realtime client arrives while the
\* service is not streaming; connect(), then start_streaming() if it succeeded.
WsRealtimeOpen ==
    /\ sut = "service"
    /\ ~svc.is_streaming
    /\ ~ss.pending
    /\ \E hw \in HwOutcomes, syn \in Outcomes, rel \in BOOLEAN, st \in Outcomes :
         LET c == Service_connect(svc, settings, hw, syn, rel)
         IN  /\ c.s.open <= MaxOpen
             /\ IF c.ret = "True"
                THEN BeginStartStreaming(c.s, st)
                ELSE /\ svc' = c.s
                     /\ ss' = ss
                     /\ last' = Called("connect", "service", c.ret,
                                       ServiceConnected(svc),
                                       ServiceStreaming(svc), 0, 0, c.attempts)
    /\ UNCHANGED <<sideVars, procVars, settings, sut, devVars, ghostVars, frame>>


(***************************************************************************)
(* Calls on the socket session under test.  The scripts that drive         *)
(* EmotiBitDirect and EmotiBitOSC issue them one after another, so a call  *)
(* is one step, except that stop_streaming blocks in join() while the      *)
(* worker thread runs on.                                                  *)
(***************************************************************************)
DevClasses == {"direct", "osc"}

CallDirectConnect ==
    /\ sut = "direct"
    /\ pc.at = "idle"
    /\ \E given \in BOOLEAN, found \in BOOLEAN,
          firstOk \in 0..Len(common_ips), finalOk \in BOOLEAN :
         LET r == Direct_connect(dev, given, found, firstOk, finalOk)
         IN  /\ ConnectInputRead(dev, given, found, firstOk, finalOk)
             /\ r.s.open <= MaxOpen
             /\ dev' = r.s
             /\ last' = Called("connect", "direct", r.ret, DevConnected(dev),
                               DevStreaming(dev), r.sent, 0, r.attempts)
    /\ UNCHANGED <<sideVars, procVars, settings, sut, svcVars, sensor_data, threads, pc,
                   ghostVars, frame>>

CallOSCConnect ==
    /\ sut = "osc"
    /\ pc.at = "idle"
    /\ \E ok \in BOOLEAN :
         LET r == OSC_connect(dev, ok)
         IN  /\ r.s.open <= MaxOpen
             /\ dev' = r.s
             /\ last' = Called("connect", "osc", r.ret, DevConnected(dev),
                               DevStreaming(dev), r.sent, 0, r.attempts)
    /\ UNCHANGED <<sideVars, procVars, settings, sut, svcVars, sensor_data, threads, pc,
                   ghostVars, frame>>

CallDevStartStreaming ==
    /\ sut \in DevClasses
    /\ pc.at = "idle"
    /\ (dev.connected /\ ~dev.streaming) => FreeSlots # {}
    /\ LET slot == IF FreeSlots = {} THEN 0
                   ELSE CHOOSE i \in FreeSlots : \A j \in FreeSlots : i <= j
           r == Dev_start_streaming(sut, dev, slot)
           started == r.ret = "Started"
       IN  /\ dev' = r.s
           /\ threads' = IF started THEN [threads EXCEPT ![slot] = ThreadLoop]
                         ELSE threads
           /\ last' = Called("start_streaming", sut,
                             IF started THEN "True" ELSE r.ret,
                             DevConnected(dev), DevStreaming(dev), r.sent,
                             IF started THEN 1 ELSE 0, <<>>)
    /\ UNCHANGED <<sideVars, procVars, settings, sut, svcVars, sensor_data, pc, ghostVars, frame>>

\* stop_streaming() up to the join; a call on a session that is not
\* streaming returns at once.
CallDevStopStreaming ==
    /\ sut \in DevClasses
    /\ pc.at = "idle"
    /\ dev' = Dev_stop_streaming_signal(dev)
    /\ pc' = IF dev.streaming
             THEN [at |-> "stop_join", preConn |-> DevConnected(dev),
                   preStream |-> DevStreaming(dev)]
             ELSE pc
    /\ last' = Called("stop_streaming", sut,
                      IF dev.streaming THEN "Joining" ELSE "Void",
                      DevConnected(dev), DevStreaming(dev), 0, 0, <<>>)
    /\ UNCHANGED <<sideVars, procVars, settings, sut, svcVars, sensor_data, threads, ghostVars,
                   frame>>

\* disconnect(): its stop_streaming() up to the join, or all of it when the
\* session is not streaming.
CallDevDisconnect ==
    /\ sut \in DevClasses
    /\ pc.at = "idle"
    /\ IF dev.streaming
       THEN /\ dev' = Dev_stop_streaming_signal(dev)
            /\ pc' = [at |-> "disc_join", preConn |-> DevConnected(dev),
                      preStream |-> DevStreaming(dev)]
            /\ last' = Called("disconnect", sut, "Joining", DevConnected(dev),
                              DevStreaming(dev), 0, 0, <<>>)
       ELSE /\ dev' = Dev_disconnect_release(sut, dev)
            /\ pc' = pc
            /\ last' = Called("disconnect", sut, "Void", DevConnected(dev),
                              DevStreaming(dev), Sends(dev, 1), 0, <<>>)
    /\ UNCHANGED <<sideVars, procVars, settings, sut, svcVars, sensor_data, threads, ghostVars,
                   frame>>

\* join(timeout=2) returns: the thread has ended, or 2 s have passed.
\* stop_streaming sends its stop commands; disconnect goes on to release.
DevJoinReturns ==
    /\ sut \in DevClasses
    /\ pc.at # "idle"
    /\ IF pc.at = "stop_join"
       THEN /\ dev' = dev
            /\ last' = Called("stop_streaming", sut, "Void", pc.preConn,
                              pc.preStream, Dev_stop_streaming_sent(sut, dev),
                              0, <<>>)
       ELSE /\ dev' = Dev_disconnect_release(sut, dev)
            /\ last' = Called("disconnect", sut, "Void", pc.preConn,
                              pc.preStream,
                              Dev_stop_streaming_sent(sut, dev) + Sends(dev, 1),
                              0, <<>>)
    /\ pc' = Idle
    /\ UNCHANGED <<sideVars, procVars, settings, sut, svcVars, sensor_data, threads, ghostVars,
                   frame>>

CallDevGetCurrentData ==
    /\ sut \in DevClasses
    /\ pc.at = "idle"
    /\ LET r == Dev_get_current_data(dev, sensor_data)
           counted == track /\ r.ret = "Frame"
       IN  /\ frame' = IF track THEN r.frame ELSE frame
           /\ delivered' = IF counted THEN Deliver(delivered, r.frame)
                           ELSE delivered
           /\ polledUpTo' = IF counted THEN nextId - 1 ELSE polledUpTo
           /\ last' = Polled(sut, r.ret, DevConnected(dev), DevStreaming(dev),
                             r.frame)
    /\ UNCHANGED <<sideVars, procVars, settings, sut, svcVars, devVars, nextId, typeOf, track>>

(***************************************************************************)
(* The worker thread: _data_collection_loop / _data_receiving_loop.        *)
(***************************************************************************)
\* The loop condition fails, or the socket is gone: the thread ends.
WorkerExit(i) ==
    /\ sut \in DevClasses
    /\ threads[i] = ThreadLoop
    /\ ~WorkerGoesOn(dev)
    /\ threads' = [threads EXCEPT ![i] = ThreadDead]
    /\ UNCHANGED <<sideVars, procVars, settings, sut, svcVars, dev, sensor_data, pc, ghostVars,
                   frame, last>>

\* recv() / recvfrom() returns a packet.  No more packets are received than
\* the MaxSamples samples of a behaviour, those not yet parsed included.
WorkerRecv(i) ==
    /\ sut \in DevClasses
    /\ threads[i] = ThreadLoop
    /\ WorkerGoesOn(dev)
    /\ nextId + Cardinality({j \in ThreadSlots : threads[j] = ThreadParse})
          <= MaxSamples
    /\ threads' = [threads EXCEPT ![i] = ThreadParse]
    /\ UNCHANGED <<sideVars, procVars, settings, sut, svcVars, dev, sensor_data, pc, ghostVars,
                   frame, last>>

\* recv() / recvfrom() raises something other than a timeout: break.
WorkerRecvError(i) ==
    /\ sut \in DevClasses
    /\ threads[i] = ThreadLoop
    /\ WorkerGoesOn(dev)
    /\ threads' = [threads EXCEPT ![i] = ThreadDead]
    /\ UNCHANGED <<sideVars, procVars, settings, sut, svcVars, dev, sensor_data, pc, ghostVars,
                   frame, last>>

\* _parse_emotibit_data / _parse_osc_data stores the sample of the packet,
\* one well-formed line of sensor type t.
WorkerParse(i) ==
    /\ sut \in DevClasses
    /\ threads[i] = ThreadParse
    /\ nextId <= MaxSamples
    /\ \E t \in SensorTypes :
         /\ sensor_data' = StoreSample(sensor_data, t, nextId)
         /\ typeOf' = IF track THEN [typeOf EXCEPT ![nextId] = t] ELSE typeOf
    /\ nextId' = nextId + 1
    /\ threads' = [threads EXCEPT ![i] = ThreadLoop]
    /\ UNCHANGED <<sideVars, procVars, settings, sut, svcVars, dev, pc, delivered, polledUpTo,
                   frame, track, last>>

NextDev ==
    \/ CallDirectConnect
    \/ CallOSCConnect
    \/ CallDevStartStreaming
    \/ CallDevStopStreaming
    \/ CallDevDisconnect
    \/ DevJoinReturns
    \/ CallDevGetCurrentData
    \/ \E i \in ThreadSlots : WorkerExit(i)
    \/ \E i \in ThreadSlots : WorkerRecv(i)
    \/ \E i \in ThreadSlots : WorkerRecvError(i)
    \/ \E i \in ThreadSlots : WorkerParse(i)

Next ==
    \/ CallServiceConnect
    \/ CallServiceStartStreaming
    \/ ServiceStartStreamingResume
    \/ CallServiceStopStreaming
    \/ CallServiceDisconnect
    \/ CallServiceGetCurrentData
    \/ WsRealtimeOpen
    \/ NextDev

Spec == Init /\ [][Next]_vars

(***************************************************************************)
(* The same program with the per-sample bookkeeping kept: every stored     *)
(* sample's type and the number of frames it was returned in.              *)
(***************************************************************************)
InitData ==
    /\ sut \in DevClasses
    /\ settings = [ENABLE_SYNTHETIC_DATA |-> FALSE, IS_PRODUCTION |-> FALSE]
    /\ svc = ServiceInit
    /\ ss = NotAsleep
    /\ dev = DevInit
    /\ sensor_data = SensorDataInit
    /\ threads = [i \in 1..MaxThreads |-> ThreadDead]
    /\ pc = Idle
    /\ nextId = 1
    /\ typeOf = [id \in SampleIds |-> "none"]
    /\ delivered = [id \in SampleIds |-> 0]
    /\ polledUpTo = 0
    /\ frame = NoFrame
    /\ track = TRUE
    /\ last = NoCall
    /\ hrv = HRVInit
    /\ calc = NoCalc
    /\ tick = NoTick
    /\ work = NoWork
    /\ extracted = <<>>
    /\ clients = NoClients

SpecData == InitData /\ [][NextDev]_vars


(***************************************************************************)
(* The socket sessions with room for a second worker thread: the thread an *)
(* earlier start_streaming() created may still be alive when the next one  *)
(* is created.  A thread that can take a step takes it in the end, and     *)
(* join(timeout=2) returns; the caller of the session owes no call.        *)
(***************************************************************************)
MaxWorkers == 2
WorkerSlots == 1..MaxWorkers

InitRestart ==
    /\ sut \in DevClasses
    /\ settings = [ENABLE_SYNTHETIC_DATA |-> FALSE, IS_PRODUCTION |-> FALSE]
    /\ svc = ServiceInit
    /\ ss = NotAsleep
    /\ dev = DevInit
    /\ sensor_data = SensorDataInit
    /\ threads = [i \in WorkerSlots |-> ThreadDead]
    /\ pc = Idle
    /\ nextId = 1
    /\ typeOf = [id \in SampleIds |-> "none"]
    /\ delivered = [id \in SampleIds |-> 0]
    /\ polledUpTo = 0
    /\ frame = NoFrame
    /\ track = FALSE
    /\ last = NoCall
    /\ hrv = HRVInit
    /\ calc = NoCalc
    /\ tick = NoTick
    /\ work = [i \in WorkerSlots |-> Resting]
    /\ extracted = <<>>
    /\ clients = NoClients

WorkerFairness ==
    /\ \A i \in WorkerSlots : WF_vars(WorkerExit(i))
    /\ \A i \in WorkerSlots : WF_vars(WorkerParse(i))
    /\ WF_vars(DevJoinReturns)

SpecRestart == InitRestart /\ [][NextDev]_vars /\ WorkerFairness


(***************************************************************************)
(* The buffers alone: add_ppg_data called with lists of one to MaxBatch    *)
(* values, the timestamps being the arrival numbers, and                   *)
(* _parse_emotibit_data called with one well-formed line, whatever thread  *)
(* calls it.                                                               *)
(***************************************************************************)
SessionsIdle ==
    /\ svc = ServiceInit
    /\ ss = NotAsleep
    /\ dev = DevInit
    /\ sensor_data = SensorDataInit
    /\ threads = [i \in 1..MaxThreads |-> ThreadDead]
    /\ pc = Idle
    /\ nextId = 1
    /\ typeOf = [id \in SampleIds |-> "none"]
    /\ delivered = [id \in SampleIds |-> 0]
    /\ polledUpTo = 0
    /\ frame = NoFrame
    /\ track = FALSE
    /\ last = NoCall

SeqsUpTo(S, n) == UNION {[1..k -> S] : k \in 0..n}

CallAddPpgData ==
    \E ppg_data \in SeqsUpTo(PpgLevels, MaxBatch) \ {<<>>}, nts \in 0..MaxBatch :
        LET now == Len(hrv.arrived)
            timestamps == [k \in 1..nts |-> now + k]
        IN  /\ now + Min(Len(ppg_data), nts) <= MaxAdded
            /\ hrv' = HRV_add_ppg_data(hrv, ppg_data, timestamps)
            /\ UNCHANGED <<sideVars, sessionVars, calc, tick>>

CallParseEmotibitData ==
    /\ nextId <= MaxStored
    /\ \E t \in SensorTypes : sensor_data' = StoreSample(sensor_data, t, nextId)
    /\ nextId' = nextId + 1
    /\ UNCHANGED <<sideVars, procVars, settings, sut, svcVars, dev, threads, pc, typeOf,
                   delivered, polledUpTo, frame, track, last>>

InitBuffer ==
    /\ sut = "direct"
    /\ settings = [ENABLE_SYNTHETIC_DATA |-> FALSE, IS_PRODUCTION |-> FALSE]
    /\ SessionsIdle
    /\ hrv = HRVInit
    /\ calc = NoCalc
    /\ tick = NoTick
    /\ work = NoWork
    /\ extracted = <<>>
    /\ clients = NoClients

NextBuffer == CallAddPpgData \/ CallParseEmotibitData

SpecBuffer == InitBuffer /\ [][NextBuffer]_vars


(***************************************************************************)
(* The same sessions with the worker's parsing taken line by line.  A      *)
(* packet is its lines; a line is the number of its comma-separated parts, *)
(* whether float() accepts its timestamp and value, and the sensor type    *)
(* its name matches ("none": no name of the if/elif chain).  For OSC a     *)
(* packet is one message: the sensor type its address matches and whether  *)
(* _extract_numeric_value finds a number.  A stored sample is the          *)
(* time.time() read for it; readings are numbered in the order taken.      *)
(***************************************************************************)
MaxLines == 2
MaxStamps == 2

Line(t) == [parts |-> 3, numeric |-> TRUE, tag |-> t]
TooShort == [parts |-> 2, numeric |-> TRUE, tag |-> "ppg"]
NotNumeric == [parts |-> 3, numeric |-> FALSE, tag |-> "ppg"]
Lines == {Line("ppg"), Line("eda"), Line("none"), TooShort, NotNumeric}

Packets(cls) ==
    IF cls = "direct" THEN SeqsUpTo(Lines, MaxLines) \ {<<>>}
    ELSE {<<m>> : m \in Lines \ {TooShort}}

\* emotibit_direct.py 246-250: len(parts) >= 3 and both float() calls pass;
\* anything else is skipped by the if or by "except (ValueError, IndexError)".
Direct_line_accepted(line) == line.parts >= 3 /\ line.numeric

\* Lines 253-276 for an accepted line: the deque of its sensor type, if any,
\* and always the timestamps deque.
Direct_store_line(sd, line, current_time) ==
    IF line.tag \in SensorTypes THEN StoreSample(sd, line.tag, current_time)
    ELSE [sd EXCEPT !.timestamps = DequeAppend(@, current_time)]

\* emotibit_osc.py 180-215: the deque of the address's sensor type when a
\* number was found, and always the timestamps deque.
OSC_store_message(sd, msg, current_time) ==
    IF msg.tag \in SensorTypes /\ msg.numeric
    THEN StoreSample(sd, msg.tag, current_time)
    ELSE [sd EXCEPT !.timestamps = DequeAppend(@, current_time)]

\* Whether the parser reads time.time() for the line (Direct line 253, OSC
\* line 177).
ReadsClock(cls, line) == cls = "osc" \/ Direct_line_accepted(line)

\* The thread goes back to its loop after the last line of the packet.
AfterLine(i) ==
    /\ work' = [work EXCEPT ![i] = [lines |-> Tail(work[i].lines),
                                    current_time |-> 0]]
    /\ threads' = IF Tail(work[i].lines) = <<>>
                  THEN [threads EXCEPT ![i] = ThreadLoop]
                  ELSE threads

\* recv() / recvfrom() returns a packet and the parser splits it.
WorkerRecvPacket(i) ==
    /\ sut \in DevClasses
    /\ threads[i] = ThreadLoop
    /\ WorkerGoesOn(dev)
    /\ nextId <= MaxStamps
    /\ \E packet \in Packets(sut) :
          work' = [work EXCEPT ![i] = [lines |-> packet, current_time |-> 0]]
    /\ threads' = [threads EXCEPT ![i] = ThreadParse]
    /\ UNCHANGED <<extracted, clients, procVars, settings, sut, svcVars, dev, sensor_data,
                   pc, ghostVars, frame, last>>

\* A line the parser passes over.
WorkerSkipLine(i) ==
    /\ threads[i] = ThreadParse
    /\ work[i].lines # <<>>
    /\ ~ReadsClock(sut, Head(work[i].lines))
    /\ AfterLine(i)
    /\ UNCHANGED <<extracted, clients, procVars, settings, sut, svcVars, dev, sensor_data,
                   pc, ghostVars, frame, last>>

\* current_time = time.time()
WorkerReadClock(i) ==
    /\ threads[i] = ThreadParse
    /\ work[i].lines # <<>>
    /\ work[i].current_time = 0
    /\ ReadsClock(sut, Head(work[i].lines))
    /\ nextId <= MaxStamps
    /\ work' = [work EXCEPT ![i].current_time = nextId]
    /\ nextId' = nextId + 1
    /\ UNCHANGED <<extracted, clients, procVars, settings, sut, svcVars, devVars, typeOf,
                   delivered, polledUpTo, track, frame, last>>

\* The appends of the line in hand.
WorkerStoreLine(i) ==
    /\ threads[i] = ThreadParse
    /\ work[i].lines # <<>>
    /\ work[i].current_time # 0
    /\ sensor_data' =
          IF sut = "direct"
          THEN Direct_store_line(sensor_data, Head(work[i].lines),
                                 work[i].current_time)
          ELSE OSC_store_message(sensor_data, Head(work[i].lines),
                                 work[i].current_time)
    /\ AfterLine(i)
    /\ UNCHANGED <<extracted, clients, procVars, settings, sut, svcVars, dev, pc,
                   ghostVars, frame, last>>

\* The session as connect() with an address that accepts (Direct) or
\* with a port that binds (OSC) leaves it.
ConnectedSession(cls) ==
    IF cls = "direct" THEN Direct_connect(DevInit, TRUE, FALSE, 0, TRUE)
    ELSE OSC_connect(DevInit, TRUE)

InitParse ==
    /\ sut \in DevClasses
    /\ settings = [ENABLE_SYNTHETIC_DATA |-> FALSE, IS_PRODUCTION |-> FALSE]
    /\ svc = ServiceInit
    /\ ss = NotAsleep
    /\ dev = ConnectedSession(sut).s
    /\ sensor_data = SensorDataInit
    /\ threads = [i \in WorkerSlots |-> ThreadDead]
    /\ pc = Idle
    /\ nextId = 1
    /\ typeOf = [id \in SampleIds |-> "none"]
    /\ delivered = [id \in SampleIds |-> 0]
    /\ polledUpTo = 0
    /\ frame = NoFrame
    /\ track = FALSE
    /\ last = Called("connect", sut, "True", FALSE, FALSE,
                     ConnectedSession(sut).sent, 0,
                     ConnectedSession(sut).attempts)
    /\ hrv = HRVInit
    /\ calc = NoCalc
    /\ tick = NoTick
    /\ work = [i \in WorkerSlots |-> Resting]
    /\ extracted = <<>>
    /\ clients = NoClients

\* The calls of a connected session that start, stop and read the stream,
\* and the steps of its workers.
NextParse ==
    \/ CallDevStartStreaming
    \/ CallDevStopStreaming
    \/ DevJoinReturns
    \/ CallDevGetCurrentData
    \/ \E i \in ThreadSlots : WorkerExit(i)
    \/ \E i \in ThreadSlots : WorkerRecvError(i)
    \/ \E i \in ThreadSlots : WorkerRecvPacket(i)
    \/ \E i \in ThreadSlots : WorkerSkipLine(i)
    \/ \E i \in ThreadSlots : WorkerReadClock(i)
    \/ \E i \in ThreadSlots : WorkerStoreLine(i)

SpecParse == InitParse /\ [][NextParse]_vars


(***************************************************************************)
(* EmotiBitService._extract_emotibit_sensors (brainflow_service.py         *)
(* 249-405) as a function of all_data and of what BoardShim declares for   *)
(* self.board_id.  An array is its rows (channels) of samples; the motion  *)
(* presets, which touch neither the three lists below nor the test of      *)
(* line 364, are left out.                                                 *)
(***************************************************************************)
\* all_data.get(preset) is None.
Absent == [present |-> FALSE, rows |-> <<>>]
Array(rows) == [present |-> TRUE, rows |-> rows]
Shape0(a) == Len(a.rows)
Shape1(a) == IF a.rows = <<>> THEN 0 ELSE Len(a.rows[1])
\* "data is not None and data.shape[1] > 0"
HasData(a) == a.present /\ Shape1(a) > 0

\* BoardShim.get_*_channels(board_id): raises, or returns the channel list.
Raises == [raises |-> TRUE, channels |-> <<>>]
Declared(chs) == [raises |-> FALSE, channels |-> chs]

\* The lists of a dict that is kept from the call before instead of built anew.
EmptySensors_kept ==
    IF extracted = <<>> THEN [ppg |-> <<>>, eda |-> <<>>, temperature |-> <<>>]
    ELSE extracted[Len(extracted)].ret

\* The local sensor_data as built at lines 251-258.
EmptySensors == [ppg |-> <<>>, eda |-> <<>>, temperature |-> <<>>]

\* data[ch].tolist()[-10:], channels numbered from 0.
ChannelTail(a, ch) == LastN(a.rows[ch + 1], Window)

\* for ch in channels: if ch < data.shape[0]: lst.extend(data[ch][-10:])
RECURSIVE ExtendFrom(_, _, _)
ExtendFrom(lst, a, channels) ==
    IF channels = <<>> THEN lst
    ELSE ExtendFrom(IF Head(channels) < Shape0(a)
                    THEN lst \o ChannelTail(a, Head(channels)) ELSE lst,
                    a, Tail(channels))

\* One try/except block of a preset: the declared channels, or on an
\* exception row `fallback` when the array has it.
PresetList(lst, a, declared, fallback) ==
    IF declared.raises
    THEN IF Shape0(a) > fallback THEN ChannelTail(a, fallback) ELSE lst
    ELSE ExtendFrom(lst, a, declared.channels)

\* The test of line 376 with both ends of the PPG range let in.
HeuristicType_closed(ch_data) ==
    LET n == Len(ch_data)
        total == SumSeq(ch_data)
    IN  IF 1000 * n <= Abs(total) /\ Abs(total) <= 100000 * n THEN "ppg"
        ELSE IF 0 <= total /\ total <= 10 * n THEN "eda"
        ELSE IF 20 * n <= total /\ total <= 45 * n THEN "temperature"
        ELSE "none"

\* Lines 373-387: the sensor type avg_val = np.mean(ch_data) falls to.
\* avg_val is total / n, compared through total and n.
HeuristicType(ch_data) ==
    LET n == Len(ch_data)
        total == SumSeq(ch_data)
    IN  IF 1000 * n < Abs(total) /\ Abs(total) < 100000 * n THEN "ppg"
        ELSE IF 0 <= total /\ total <= 10 * n THEN "eda"
        ELSE IF 20 * n <= total /\ total <= 45 * n THEN "temperature"
        ELSE "none"

\* A claim that replaces what an earlier channel has put there.
HeuristicClaim_overwrite(sd, t, ch_data) ==
    IF t = "none" THEN sd ELSE [sd EXCEPT ![t] = ch_data]

\* "if not sensor_data[t]: sensor_data[t] = ch_data"
HeuristicClaim(sd, t, ch_data) ==
    IF t = "none" THEN sd
    ELSE IF sd[t] = <<>> THEN [sd EXCEPT ![t] = ch_data]
    ELSE sd

\* for ch in range(min(num_channels, 10)), from channel ch on.
RECURSIVE HeuristicLoop(_, _, _)
HeuristicLoop(sd, main, ch) ==
    IF ch >= Min(Shape0(main), 10) THEN sd
    ELSE LET ch_data == ChannelTail(main, ch)
         IN  HeuristicLoop(HeuristicClaim(sd, HeuristicType(ch_data), ch_data),
                           main, ch + 1)

\* _extract_emotibit_sensors with the heuristic loop run whenever any of the
\* three lists is still empty, not only when all of them are.
Service_extract_per_type(all_data, declared) ==
    LET aux == all_data.auxiliary
        anc == all_data.ancillary
        sd == [ppg |-> IF HasData(aux)
                       THEN PresetList(EmptySensors.ppg, aux, declared.ppg, 0)
                       ELSE EmptySensors.ppg,
               eda |-> IF HasData(anc)
                       THEN PresetList(EmptySensors.eda, anc, declared.eda, 0)
                       ELSE EmptySensors.eda,
               temperature |->
                       IF HasData(anc)
                       THEN PresetList(EmptySensors.temperature, anc,
                                       declared.temperature, 1)
                       ELSE EmptySensors.temperature]
    IN  IF (sd.ppg = <<>> \/ sd.eda = <<>> \/ sd.temperature = <<>>)
           /\ HasData(all_data.main)
        THEN HeuristicLoop(sd, all_data.main, 0)
        ELSE sd

Service_extract_emotibit_sensors(all_data, declared) ==
    LET aux == all_data.auxiliary
        anc == all_data.ancillary
        ppg == IF HasData(aux)
               THEN PresetList(EmptySensors.ppg, aux, declared.ppg, 0)
               ELSE EmptySensors.ppg
        eda == IF HasData(anc)
               THEN PresetList(EmptySensors.eda, anc, declared.eda, 0)
               ELSE EmptySensors.eda
        temperature ==
               IF HasData(anc)
               THEN PresetList(EmptySensors.temperature, anc,
                               declared.temperature, 1)
               ELSE EmptySensors.temperature
        sd == [ppg |-> ppg, eda |-> eda, temperature |-> temperature]
    IN  IF ppg = <<>> /\ eda = <<>> /\ temperature = <<>>
           /\ HasData(all_data.main)
        THEN HeuristicLoop(sd, all_data.main, 0)
        ELSE sd


(***************************************************************************)
(* The processor's methods as functions: the argument of the one call of   *)
(* a behaviour is drawn at the start, the call applies the method to it.   *)
(***************************************************************************)
\* Distances between consecutive peaks, in ms.
RRChoices == {280, 300, 500, 650, 1600, 2000, 2100}

\* Timestamps (ms) of samples that lie the given intervals apart.
RECURSIVE TimestampsOf(_)
TimestampsOf(intervals) ==
    IF intervals = <<>> THEN <<0>>
    ELSE LET ts == TimestampsOf(SubSeq(intervals, 1, Len(intervals) - 1))
         IN  Append(ts, ts[Len(ts)] + intervals[Len(intervals)])

\* Every sample a peak, the peaks the given distances apart.
PeakArg(iv) ==
    [kind |-> "peaks", peaks |-> [k \in 1..(Len(iv) + 1) |-> k],
     timestamps |-> TimestampsOf(iv)]

NoPeaks == [kind |-> "peaks", peaks |-> <<>>, timestamps |-> <<>>]

\* R-R intervals (ms) handed to calculate_hrv_metrics.
RRValues == {790, 795, 800, 805, 810, 1000}

RRArg(rr) == [kind |-> "rr", rr_intervals |-> rr]

\* Sensor lists handed to process_realtime_data: raw PPG samples, EDA in
\* 1e-4 (-0.05 .. 0.2, and the single reading 1000), temperature in 0.01.
PpgSamples == {-2, 0, 1, 3}
EdaSamples == {-500, 0, 200, 2000}
EdaLists == SeqsUpTo(EdaSamples, MaxBatch) \cup {<<10000000>>}
TemperatureLists == {<<>>, <<3650, 3661>>}

BadLists == {{}, {"ppg"}, {"eda"}, {"temperature"}}

SensorArg(p, e, tl, b, d) ==
    [kind |-> "sensor_data", is_dict |-> TRUE, ppg |-> p, eda |-> e,
     temperature |-> tl, bad |-> b, debug_info |-> d]

\* Something that is not a dict: sensor_data.get raises.
NotADict ==
    [kind |-> "sensor_data", is_dict |-> FALSE, ppg |-> <<>>, eda |-> <<>>,
     temperature |-> <<>>, bad |-> {}, debug_info |-> FALSE]

\* Values of current_metrics the stress block may find: eda_level in 1e-6
\* (up to 1000), heart_rate in tenths (up to 300).
EdaLevels == {-50000, 0, 23450, 50000, 100000, 200000, 1000000000}
HeartRates == {0, 400, 600, 601, 1000, 1600, 1800, 3000}

StressArg(e, h) == [kind |-> "current_metrics", eda_level |-> e, heart_rate |-> h]

ToCall(a) == [fn |-> "none", arg |-> a]

CallCalculateRRIntervals ==
    /\ calc.fn = "none"
    /\ calc.arg.kind = "peaks"
    /\ calc' = [fn |-> "calculate_rr_intervals", arg |-> calc.arg,
                out |-> HRV_calculate_rr_intervals(calc.arg.peaks,
                                                   calc.arg.timestamps)]
    /\ UNCHANGED <<sideVars, sessionVars, hrv, tick>>

CallCalculateHrvMetrics ==
    /\ calc.fn = "none"
    /\ calc.arg.kind = "rr"
    /\ calc' = [fn |-> "calculate_hrv_metrics", arg |-> calc.arg,
                out |-> HRV_calculate_hrv_metrics(calc.arg.rr_intervals)]
    /\ UNCHANGED <<sideVars, sessionVars, hrv, tick>>

CallProcessRealtimeData ==
    /\ calc.fn = "none"
    /\ calc.arg.kind = "sensor_data"
    /\ calc' = [fn |-> "process_realtime_data", arg |-> calc.arg,
                out |-> HRV_process_realtime_data(calc.arg)]
    /\ UNCHANGED <<sideVars, sessionVars, hrv, tick>>

\* Lines 210-228 alone, on given values of current_metrics.
StressBlock ==
    /\ calc.fn = "none"
    /\ calc.arg.kind = "current_metrics"
    /\ calc' = [fn |-> "stress_score", arg |-> calc.arg,
                out |-> [stress_score |->
                            StressScore(calc.arg.eda_level, calc.arg.heart_rate)]]
    /\ UNCHANGED <<sideVars, sessionVars, hrv, tick>>

\* Arrays handed to _extract_emotibit_sensors as all_data['main']: up to
\* MaxChannels channels, either of one sample each or of two.
MaxChannels == 2
ChannelValues ==
    {-1500, -1000, -1, 0, 5, 10, 11, 20, 30, 45, 46, 1000, 1500, 100000}
OneSampleRows == {<<v>> : v \in ChannelValues}
TwoSampleRows == {<<999, 1001>>, <<0, 21>>, <<99999, 100001>>, <<1500, 5>>}
ArraysOf(rows) == {Array(m) : m \in SeqsUpTo(rows, MaxChannels) \ {<<>>}}
\* An auxiliary preset that is missing, has no sample yet, or has one channel.
AuxArrays == {Absent, Array(<< <<>> >>), Array(<< <<1500>> >>)}
NothingDeclared == [ppg |-> Raises, eda |-> Raises, temperature |-> Raises]

FrameArg(aux, anc, main, declared) ==
    [kind |-> "all_data", auxiliary |-> aux, ancillary |-> anc, main |-> main,
     declared |-> declared]

CallExtractEmotibitSensors ==
    /\ calc.fn = "none"
    /\ calc.arg.kind = "all_data"
    /\ calc' = [fn |-> "_extract_emotibit_sensors", arg |-> calc.arg,
                out |-> Service_extract_emotibit_sensors(calc.arg,
                                                         calc.arg.declared)]
    /\ UNCHANGED <<sideVars, sessionVars, hrv, tick>>

InitCalc ==
    /\ sut = "service"
    /\ settings = [ENABLE_SYNTHETIC_DATA |-> FALSE, IS_PRODUCTION |-> FALSE]
    /\ SessionsIdle
    /\ hrv = HRVInit
    /\ \/ \E iv \in SeqsUpTo(RRChoices, MaxPeaks - 1) : calc = ToCall(PeakArg(iv))
       \/ calc = ToCall(NoPeaks)
       \/ \E rr \in SeqsUpTo(RRValues, MaxRR) : calc = ToCall(RRArg(rr))
       \/ \E p \in SeqsUpTo(PpgSamples, MaxBatch), e \in EdaLists,
             tl \in TemperatureLists, b \in BadLists, d \in BOOLEAN :
               calc = ToCall(SensorArg(p, e, tl, b, d))
       \/ calc = ToCall(NotADict)
       \/ \E e \in EdaLevels, h \in HeartRates : calc = ToCall(StressArg(e, h))
       \/ \E aux \in AuxArrays,
             main \in ArraysOf(OneSampleRows) \cup ArraysOf(TwoSampleRows)
                      \cup {Absent} :
               calc = ToCall(FrameArg(aux, Absent, main, NothingDeclared))
    /\ tick = NoTick
    /\ work = NoWork
    /\ extracted = <<>>
    /\ clients = NoClients

NextCalc ==
    \/ CallCalculateRRIntervals
    \/ CallCalculateHrvMetrics
    \/ CallProcessRealtimeData
    \/ StressBlock
    \/ CallExtractEmotibitSensors

SpecCalc == InitCalc /\ [][NextCalc]_vars


(***************************************************************************)
(* _extract_emotibit_sensors called again and again on one service, each   *)
(* call with any frame and any channel declaration; the two latest calls   *)
(* are kept.                                                               *)
(***************************************************************************)
\* Channels that are PPG-like, EDA-like, temperature-like, and like nothing.
FewRows == {<<1500>>, <<5>>, <<30>>, <<15>>}
PresetAux == {Absent, Array(<< <<1400>>, <<-1400>> >>)}
PresetAnc == {Absent, Array(<< <<4>>, <<31>> >>)}
\* Channel lists BrainFlow may declare: in range, one past the array, none
\* (the call raises).
DeclaredMaps ==
    {[ppg |-> p, eda |-> e, temperature |-> t] :
        p \in {Raises, Declared(<<0, 1>>)},
        e \in {Raises, Declared(<<2>>)},
        t \in {Raises, Declared(<<1>>)}}

ExtractCall(all_data, declared) ==
    [all_data |-> all_data, declared |-> declared,
     ret |-> Service_extract_emotibit_sensors(all_data, declared)]

\* get_current_data() reaches line 239: one more call, on a frame without
\* preset data or on one with.
CallExtractAgain ==
    /\ \/ \E main \in ArraysOf(FewRows) \cup {Absent} :
            extracted' = LastN(Append(extracted,
                ExtractCall([auxiliary |-> Absent, ancillary |-> Absent,
                             main |-> main], NothingDeclared)), 2)
       \/ \E aux \in PresetAux, anc \in PresetAnc, declared \in DeclaredMaps :
            extracted' = LastN(Append(extracted,
                ExtractCall([auxiliary |-> aux, ancillary |-> anc,
                             main |-> Array(<< <<1500>> >>)], declared)), 2)
    /\ UNCHANGED <<work, clients, procVars, sessionVars>>

InitExtract ==
    /\ sut = "service"
    /\ settings = [ENABLE_SYNTHETIC_DATA |-> FALSE, IS_PRODUCTION |-> FALSE]
    /\ SessionsIdle
    /\ hrv = HRVInit
    /\ calc = NoCalc
    /\ tick = NoTick
    /\ work = NoWork
    /\ extracted = <<>>
    /\ clients = NoClients

NextExtract == CallExtractAgain

SpecExtract == InitExtract /\ [][NextExtract]_vars


(***************************************************************************)
(* The realtime WebSocket (api/websocket.py, websocket_endpoint): a client *)
(* arrives, the service is connected and started if it is not streaming,   *)
(* the connection status is sent and the loop polls, processes and sends   *)
(* once per UPDATE_INTERVAL.  tick.client is whether the client is still   *)
(* in manager.active_connections; tick.message is what the latest send     *)
(* handed to it, tick.acquired and tick.bad what the tick had to work on.  *)
(***************************************************************************)
NoMessage == [type |-> "none"]

\* send_personal_message, lines 36-43: snd is the outcome of send_text.
SendPersonalMessage(tk, message, snd) ==
    IF ~tk.client THEN [tk EXCEPT !.message = NoMessage]
    ELSE IF snd = "ok" THEN [tk EXCEPT !.message = message]
    ELSE [tk EXCEPT !.message = NoMessage, !.client = FALSE]

\* What the channels of a tick's BrainFlow data hold.
TickPpg == {<<>>, <<1, 3>>}
TickEda == {<<>>, <<200>>, <<-500, 2000>>}

\* Lines 79-85: the client is registered, the service was tried if it was
\* not streaming (WsRealtimeOpen and the end of its start_streaming).
RealtimeEnterLoop ==
    /\ sut = "service"
    /\ tick.loop = "none"
    /\ ~ss.pending
    /\ svc.is_streaming \/ last.op \in {"connect", "start_streaming"}
    /\ \E snd \in Outcomes :
         tick' = SendPersonalMessage(
                     [loop |-> "running", client |-> TRUE, message |-> NoMessage,
                      acquired |-> 0, bad |-> {}],
                     [type |-> "connection_status",
                      connected |-> svc.is_streaming], snd)
    /\ UNCHANGED <<sideVars, sessionVars, hrv, calc>>

\* Lines 88-117: one pass of the loop, to the sleep.  n, the lists and b are
\* what BrainFlow hands over: n = 0 when every preset is empty or raises.
RealtimeTick ==
    /\ sut = "service"
    /\ tick.loop = "running"
    /\ \E n \in {0, Window}, p \in TickPpg, e \in TickEda,
          tl \in TemperatureLists, b \in BadLists, snd \in Outcomes :
         LET r == Service_get_current_data(svc, n)
             got == IF svc.is_mock_mode THEN Window ELSE n
             sensor_data_in ==
                 IF got = 0 THEN SensorArg(<<>>, <<>>, <<>>, {}, FALSE)
                 ELSE SensorArg(p, e, tl, b, FALSE)
             message ==
                 IF r.ret = "None"
                 THEN [type |-> "heartbeat", status |-> "waiting_for_data"]
                 ELSE [type |-> "biometric_data",
                       metrics |-> HRV_process_realtime_data(sensor_data_in)]
         IN  /\ svc.is_mock_mode => (p # <<>> /\ e # <<>> /\ tl # <<>> /\ b = {})
             /\ tick' = SendPersonalMessage(
                             [tick EXCEPT !.acquired = got,
                                          !.bad = sensor_data_in.bad],
                             message, snd)
             /\ last' = Polled("service", r.ret, ServiceConnected(svc),
                               ServiceStreaming(svc), r.frame)
    /\ UNCHANGED <<sideVars, settings, sut, svcVars, devVars, ghostVars, frame, hrv,
                   calc>>

InitTick ==
    /\ sut = "service"
    /\ settings \in [ENABLE_SYNTHETIC_DATA : BOOLEAN, IS_PRODUCTION : BOOLEAN]
    /\ SessionsIdle
    /\ hrv = HRVInit
    /\ calc = NoCalc
    /\ tick = NoTick
    /\ work = NoWork
    /\ extracted = <<>>
    /\ clients = NoClients

NextTick ==
    \/ WsRealtimeOpen
    \/ ServiceStartStreamingResume
    \/ RealtimeEnterLoop
    \/ RealtimeTick

SpecTick == InitTick /\ [][NextTick]_vars

\* The loop of lines 88-120 sleeps UPDATE_INTERVAL and goes round again: a
\* pass that can be made is made.
SpecTickLive == InitTick /\ [][NextTick]_vars /\ WF_vars(RealtimeTick)


(***************************************************************************)
(* Session states.  Connected: the session holds a backend (board is set / *)
(* the connected flag is true).  Streaming: Connected with the streaming   *)
(* flag true.  Disconnected: no backend, no handle, not streaming.         *)
(***************************************************************************)
Connected == IF sut = "service" THEN ServiceConnected(svc) ELSE DevConnected(dev)
Streaming == IF sut = "service" THEN ServiceStreaming(svc) ELSE DevStreaming(dev)
StreamingFlag == IF sut = "service" THEN svc.is_streaming ELSE dev.streaming
Handle == IF sut = "service" THEN svc.board ELSE dev.socket
Disconnected == ~Connected /\ ~StreamingFlag /\ Handle = "None"

\* C1: a session is Streaming only if it was Connected (or already Streaming)
\* immediately before the call that left it so: no call takes a session
\* that is not connected directly to Streaming.
C1_StreamingOnlyFromConnected ==
    (last.op # "none" /\ Streaming /\ ~last.preStream) => last.preConn

StartStreamingWhileDisconnected ==
    \/ CallServiceStartStreaming /\ ~ServiceConnected(svc)
    \/ CallDevStartStreaming /\ ~DevConnected(dev)

\* C2: start_streaming() called while the session is not connected returns
\* False, starts no thread, sends no command and changes no session field
\* (board/connected, streaming flag, socket, buffers, threads).
C2_StartStreamingWhileDisconnectedFails ==
    [][StartStreamingWhileDisconnected =>
          /\ last'.op = "start_streaming"
          /\ last'.ret = "False"
          /\ last'.sent = 0
          /\ last'.started = 0
          /\ UNCHANGED <<svc, ss, dev, sensor_data, threads>>]_vars

C2_RefusedStart ==
    /\ last.op = "start_streaming"
    /\ ~last.preConn
    /\ last.ret = "False"
    /\ Disconnected

\* C3: disconnect() called on a connected or streaming session always
\* completes with the session Disconnected: not streaming, not connected,
\* no backend handle.
C3_DisconnectEndsDisconnected ==
    (last.op = "disconnect" /\ last.ret = "Void" /\ last.preConn)
        => Disconnected

BackendRank(kind) ==
    CASE kind = "hardware" -> 1
      [] kind = "synthetic" -> 2
      [] OTHER -> 3

\* C5: one connect() of EmotiBitService tries real hardware first, then the
\* synthetic board, then the mock, each at most once and a later one only
\* after the earlier one failed.
C5_HardwareFirstThenFallbacks ==
    (last.op = "connect" /\ last.backend = "service") =>
        LET a == last.attempts
        IN  /\ Len(a) >= 1
            /\ a[1].kind = "hardware"
            /\ \A i \in 1..(Len(a) - 1) :
                 /\ ~a[i].ok
                 /\ BackendRank(a[i].kind) < BackendRank(a[i + 1].kind)

HardwareFailed(a) == \E i \in 1..Len(a) : a[i].kind = "hardware" /\ ~a[i].ok

NoFallbackBackend ==
    /\ svc.board \notin {"synthetic", "mock_board"}
    /\ ~svc.is_mock_mode
    /\ (last.op = "connect" /\ last.backend = "service"
            /\ HardwareFailed(last.attempts))
          => last.ret = "False" /\ svc.board = "None"

C7_FailedConnectLeavesNoHandle ==
    (last.op = "connect" /\ last.ret = "False")
        => ~Connected /\ Handle = "None"

\* C8: EmotiBitService owns at most one prepared BrainFlow session at a
\* time, and a prepared session is always the one self.board refers to:
\* connect() never prepares a second one or drops the first unreleased.
C8_AtMostOneBackendOpen ==
    sut = "service" =>
        /\ svc.open <= 1
        /\ svc.open = 1 => IsBoardShim(svc.board)

\* C9: get_current_data returns a frame only when the session is Streaming
\* and the frame holds at least one sample; otherwise it returns None.
C9_FrameOnlyWithSamples ==
    (last.op = "get_current_data" /\ last.ret = "Frame")
        => last.preStream /\ last.n > 0

NewerOfType(id) ==
    {j \in SampleIds : j > id /\ j <= polledUpTo /\ typeOf[j] = typeOf[id]}

Newest(q, n) == [k \in 1..Min(n, Len(q)) |-> q[Len(q) - Min(n, Len(q)) + k]]

\* C11: no buffer (ppg_buffer, the sessions' deques) ever holds more than
\* its capacity, and ppg_buffer and the timestamps deque hold the newest
\* entries added to them, in arrival order: each append to a full buffer
\* has removed exactly the entry that was then the oldest.
C11_BufferHoldsNewestInOrder ==
    /\ Len(hrv.ppg_buffer) <= PpgCap
    /\ hrv.ppg_buffer = Newest(hrv.arrived, PpgCap)
    /\ \A t \in DOMAIN sensor_data : Len(sensor_data[t]) <= BufCap
    /\ sensor_data.timestamps = Newest([k \in 1..(nextId - 1) |-> k], BufCap)

\* C11 witness: more entries were added than the buffer holds; the oldest
\* ones are gone and the buffer is full.
C11_OldestEvicted ==
    /\ Len(hrv.arrived) > PpgCap
    /\ Len(hrv.ppg_buffer) = PpgCap
    /\ hrv.ppg_buffer[1] = hrv.arrived[Len(hrv.arrived) - PpgCap + 1]
    /\ nextId - 1 > BufCap
    /\ \E t \in SensorTypes : Len(sensor_data[t]) = BufCap /\ sensor_data[t][1] > 1

\* Samples the timestamps deque has let go: lines stored minus entries held.
StoredLost == (nextId - 1) - Len(sensor_data.timestamps)

\* C12: every eviction is counted: a step in which a full buffer lets a
\* sample go also changes a field of the program outside the buffers (the
\* overflow counter), so that lost samples and counted evictions stay equal.
C12_EvictionIsCounted ==
    [][StoredLost' > StoredLost => <<svc, dev>>' # <<svc, dev>>]_vars


(***************************************************************************)
(* HRV metrics.                                                            *)
(***************************************************************************)
\* The distances in ms between consecutive peaks of a call's argument.
PeakDistances(arg) ==
    [i \in 1..(Len(arg.peaks) - 1) |->
        arg.timestamps[arg.peaks[i + 1]] - arg.timestamps[arg.peaks[i]]]

InRange300To2000(rr) == 300 <= rr /\ rr <= 2000

\* C14: calculate_rr_intervals returns the distances between consecutive
\* peaks that lie in [300, 2000] ms, both ends included, in their original
\* order, and nothing else; [280, 500, 1600, 2100, 650] gives
\* [500, 1600, 650].
C14_KeepsExactlyPlausibleIntervals ==
    calc.fn = "calculate_rr_intervals" =>
        /\ calc.out = SelectSeq(PeakDistances(calc.arg), InRange300To2000)
        /\ (PeakDistances(calc.arg) = <<280, 500, 1600, 2100, 650>>
                => calc.out = <<500, 1600, 650>>)

\* C14 witness: the call on peaks 280, 500, 1600, 2100 and 650 ms apart has
\* returned the three distances in range.
C14_ExampleFiltered ==
    /\ calc.fn = "calculate_rr_intervals"
    /\ PeakDistances(calc.arg) = <<280, 500, 1600, 2100, 650>>
    /\ calc.out = <<500, 1600, 650>>

ExampleRR == <<800, 810, 790, 805, 795>>

\* C15: for at least 5 intervals, mean_rr is the arithmetic mean of the
\* intervals and heart_rate is 60000 / mean, each within half a tenth (1
\* decimal place); for [800, 810, 790, 805, 795] they are 800.0 and 75.0.
C15_MeanAndHeartRate ==
    (calc.fn = "calculate_hrv_metrics" /\ Len(calc.arg.rr_intervals) >= 5) =>
        LET rr == calc.arg.rr_intervals
            n == Len(rr)
            total == SumSeq(rr)
        IN  /\ calc.out.returned = "metrics"
            /\ 2 * Abs(n * calc.out.mean_rr - 10 * total) <= n
            /\ 2 * Abs(calc.out.heart_rate * total - 600000 * n) <= total
            /\ (rr = ExampleRR =>
                    calc.out.mean_rr = 8000 /\ calc.out.heart_rate = 750)

\* C15 witness: metrics returned for the example list.
C15_ExampleMean ==
    /\ calc.fn = "calculate_hrv_metrics"
    /\ calc.arg.rr_intervals = ExampleRR
    /\ calc.out.mean_rr = 8000
    /\ calc.out.heart_rate = 750

\* r tenths is x rounded to 1 decimal, where x * x = num / den.
IsSqrtInTenths(r, num, den) ==
    LET f == ScaledFloor(400, num, den)
    IN  /\ r >= 0
        /\ (r > 0 => (2 * r - 1) * (2 * r - 1) <= f)
        /\ f < (2 * r + 1) * (2 * r + 1)

\* C16 as stated: for [800, 810, 790, 805, 795], SDNN is 7.1 and RMSSD is
\* 11.6 at 1 decimal.
C16_ExampleRmssd116 ==
    (calc.fn = "calculate_hrv_metrics" /\ calc.arg.rr_intervals = ExampleRR) =>
        calc.out.sdnn = 71 /\ calc.out.rmssd = 116

\* C16, amended: sdnn is the population standard deviation of the intervals
\* and rmssd the square root of the mean of the squared consecutive
\* differences, at 1 decimal; for [800, 810, 790, 805, 795] the squared
\* differences are 100, 400, 225, 100, so SDNN is 7.1 and RMSSD is 14.4.
C16_SdnnAndRmssd ==
    (calc.fn = "calculate_hrv_metrics" /\ Len(calc.arg.rr_intervals) >= 5) =>
        LET rr == calc.arg.rr_intervals
            n == Len(rr)
        IN  /\ IsSqrtInTenths(calc.out.sdnn, SqDev(rr), n * n * n)
            /\ IsSqrtInTenths(calc.out.rmssd, SqDiff(rr), n - 1)
            /\ (rr = ExampleRR => calc.out.sdnn = 71 /\ calc.out.rmssd = 144)

\* C16 witness: metrics returned for the example list, with RMSSD 14.4.
C16_ExampleRmssd144 ==
    /\ calc.fn = "calculate_hrv_metrics"
    /\ calc.arg.rr_intervals = ExampleRR
    /\ calc.out.sdnn = 71
    /\ calc.out.rmssd = 144


(***************************************************************************)
(* Snapshots.                                                              *)
(***************************************************************************)
Snapshot == calc.fn = "process_realtime_data" /\ calc.out.status = "processing"

\* C13: process_realtime_data reads no R-R interval at all, so fewer than 5
\* are available to every snapshot it builds: the snapshot carries a
\* quality entry (it would say "degraded") and no sdnn or rmssd entry.
C13_DegradedWithoutRRIntervals ==
    Snapshot =>
        /\ DOMAIN calc.out \cap {"quality", "hrv_quality"} # {}
        /\ DOMAIN calc.out \cap {"sdnn", "rmssd"} = {}

\* C17: a stress score that process_realtime_data (or its stress block on
\* any eda_level and heart_rate) or calculate_hrv_metrics returns lies in
\* [0, 100].
C17_StressScoreInRange ==
    /\ ( /\ calc.fn \in {"process_realtime_data", "stress_score"}
         /\ "stress_score" \in DOMAIN calc.out )
            => (0 <= calc.out.stress_score /\ calc.out.stress_score <= 1000)
    /\ (calc.fn = "calculate_hrv_metrics" /\ calc.out.returned = "metrics")
            => (0 <= calc.out.stress_score /\ calc.out.stress_score <= 1000)

\* C17 witness: a snapshot for the EDA reading 1000 and a PPG list that
\* drives the heart rate to its ceiling of 180: the score is 100.
C17_ExtremeInputsClamped ==
    /\ Snapshot
    /\ calc.arg.eda = <<10000000>>
    /\ calc.out.heart_rate = 1800
    /\ calc.out.stress_score = 1000

\* The eda_level and heart_rate the stress score was computed from.
StressInputs ==
    IF calc.fn = "stress_score" THEN calc.arg
    ELSE [eda_level |-> calc.out.eda_level, heart_rate |-> calc.out.heart_rate]

StressComputed == Snapshot \/ calc.fn = "stress_score"

\* x is within half a tenth of twice2000 / 2000 tenths.
IsRoundedHalf(x, twice) == Abs(2000 * x - twice) <= 1000

\* C18 as stated: the score is clamp(0, 100, 0.5 * min(100, eda_level * 1000)
\* + 0.5 * max(0, (heart_rate - 60) * 2)), read at 1 decimal.
C18_StressFormulaAsStated ==
    StressComputed =>
        LET e == StressInputs.eda_level
            h == StressInputs.heart_rate
        IN  IsRoundedHalf(calc.out.stress_score,
                Clamp(0, 2000000,
                      10 * Min(100000, e) + 1000 * Max(0, (h - 600) * 2)))

\* C18, amended: the EDA part counts only when eda_level is above 0, and the
\* score is rounded to 1 decimal.
C18_StressFormulaPositiveEda ==
    StressComputed =>
        LET e == StressInputs.eda_level
            h == StressInputs.heart_rate
            from_eda == IF e > 0 THEN 10 * Min(100000, e) ELSE 0
        IN  IsRoundedHalf(calc.out.stress_score,
                Clamp(0, 2000000, from_eda + 1000 * Max(0, (h - 600) * 2)))

\* C18 witness: a snapshot with a negative EDA level and a heart rate above
\* 60: the score is heart_rate - 60, the EDA level takes nothing off it.
C18_NegativeEdaIgnored ==
    /\ Snapshot
    /\ calc.out.eda_level < 0
    /\ calc.out.heart_rate > 600
    /\ calc.out.stress_score = calc.out.heart_rate - 600


(***************************************************************************)
(* The connection manager (api/websocket.py, ConnectionManager) and the    *)
(* handlers of the two WebSocket endpoints that register with it.  A       *)
(* socket w is one WebSocket connection; clients.handlers[w] is the        *)
(* endpoint coroutine serving it: where it is, the client_id it formed and *)
(* whether the remote end is still there.                                  *)
(***************************************************************************)
\* len(manager.active_connections)
ActiveCount(ac) == Cardinality({k \in ClientIds : ac[k] # 0})

\* Lines 65 and 128: f"client_{len(...)}" and f"control_{len(...)}".
NewClientId(kind, ac) == [kind |-> kind, n |-> ActiveCount(ac)]

\* ConnectionManager.connect, line 27 (after the accept of line 26).
ConnectionManager_connect(ac, websocket, client_id) ==
    [ac EXCEPT ![client_id] = websocket]

\* ConnectionManager.disconnect, lines 30-34.
ConnectionManager_disconnect(ac, client_id) ==
    IF ac[client_id] # 0 THEN [ac EXCEPT ![client_id] = 0] ELSE ac

\* Lines 65-66 and 128-129, to the await of websocket.accept(): a client
\* opens /realtime or /control and the handler forms its client_id.
HandlerArrives(w) ==
    /\ clients.handlers[w].at = "none"
    /\ \E kind \in {"client", "control"} :
         clients' = [clients EXCEPT !.handlers[w] =
                        [at |-> "accepting",
                         client_id |-> NewClientId(kind, clients.active_connections),
                         peer |-> "open"]]
    /\ UNCHANGED <<work, extracted, procVars, sessionVars>>

\* Lines 26-27: accept() returns and the socket is stored under the id, or
\* accept() raises, which ends the handler before its try block.
HandlerAccepted(w) ==
    /\ clients.handlers[w].at = "accepting"
    /\ \E ok \in Outcomes :
         clients' =
            IF ok = "ok"
            THEN [clients EXCEPT
                    !.active_connections =
                        ConnectionManager_connect(@, w, clients.handlers[w].client_id),
                    !.handlers[w].at = "running"]
            ELSE [clients EXCEPT !.handlers[w] = NoHandler]
    /\ UNCHANGED <<work, extracted, procVars, sessionVars>>

\* The remote end of a connection goes away.
PeerGoes(w) ==
    /\ clients.handlers[w].at = "running"
    /\ clients.handlers[w].peer = "open"
    /\ clients' = [clients EXCEPT !.handlers[w].peer = "gone"]
    /\ UNCHANGED <<work, extracted, procVars, sessionVars>>

\* send_personal_message, lines 36-43, when send_text raises: the handler
\* sends to whatever socket is stored under its id, the remote end of that
\* socket is gone, the entry is removed and the handler goes on.
HandlerSendFails(w) ==
    /\ clients.handlers[w].at = "running"
    /\ LET client_id == clients.handlers[w].client_id
           websocket == clients.active_connections[client_id]
       IN  /\ websocket # 0
           /\ clients.handlers[websocket].peer = "gone"
           /\ clients' = [clients EXCEPT !.active_connections =
                              ConnectionManager_disconnect(@, client_id)]
    /\ UNCHANGED <<work, extracted, procVars, sessionVars>>

\* control_websocket, lines 134 and 140-144: receive_text() raises because
\* the remote end is gone; the handler removes its id and ends.  (The
\* realtime handler never receives and its loop has no exit.)
HandlerLeaves(w) ==
    /\ clients.handlers[w].at = "running"
    /\ clients.handlers[w].client_id.kind = "control"
    /\ clients.handlers[w].peer = "gone"
    /\ clients' = [clients EXCEPT
                     !.active_connections =
                         ConnectionManager_disconnect(@, clients.handlers[w].client_id),
                     !.handlers[w] = NoHandler]
    /\ UNCHANGED <<work, extracted, procVars, sessionVars>>

InitClients ==
    /\ sut = "service"
    /\ settings \in [ENABLE_SYNTHETIC_DATA : BOOLEAN, IS_PRODUCTION : BOOLEAN]
    /\ SessionsIdle
    /\ hrv = HRVInit
    /\ calc = NoCalc
    /\ tick = NoTick
    /\ work = NoWork
    /\ extracted = <<>>
    /\ clients = NoClients

NextClients ==
    \/ \E w \in Sockets : HandlerArrives(w)
    \/ \E w \in Sockets : HandlerAccepted(w)
    \/ \E w \in Sockets : PeerGoes(w)
    \/ \E w \in Sockets : HandlerSendFails(w)
    \/ \E w \in Sockets : HandlerLeaves(w)

SpecClients == InitClients /\ [][NextClients]_vars



(***************************************************************************)
(* The control WebSocket's dispatcher (api/websocket.py,                   *)
(* handle_control_command) on EmotiBitService.  A command runs to its      *)
(* response, or for start_stream to the sleep inside start_streaming(),    *)
(* which ServiceStartStreamingResume finishes.  last.op is the command     *)
(* type and last.ret the type of the response, or what the service call    *)
(* returned.                                                               *)
(***************************************************************************)
\* The values of command.get("type"): the five known ones and any other.
ControlCommands ==
    {"connect", "disconnect", "start_stream", "stop_stream", "get_status",
     "unknown"}

\* A dispatcher whose final else branch disconnects.
Handle_control_command_resetting(s, cfg, cmd_type, o) ==
    IF cmd_type = "connect"
    THEN Service_connect(s, cfg, o.hw, o.syn, o.rel)
    ELSE IF cmd_type = "start_stream"
    THEN Service_start_streaming(s, o.st)
    ELSE IF cmd_type = "stop_stream"
    THEN Result(Service_stop_streaming(s, o.sp), "stream_response", <<>>)
    ELSE IF cmd_type = "get_status"
    THEN Result(s, "status_response", <<>>)
    ELSE Result(Service_disconnect(s, o.sp, o.rl), "error", <<>>)

\* handle_control_command, lines 146-202.  o: the outcomes of the BrainFlow
\* calls the command makes.
Handle_control_command(s, cfg, cmd_type, o) ==
    IF cmd_type = "connect"
    THEN Service_connect(s, cfg, o.hw, o.syn, o.rel)
    ELSE IF cmd_type = "disconnect"
    THEN Result(Service_disconnect(s, o.sp, o.rl), "disconnect_response", <<>>)
    ELSE IF cmd_type = "start_stream"
    THEN Service_start_streaming(s, o.st)
    ELSE IF cmd_type = "stop_stream"
    THEN Result(Service_stop_streaming(s, o.sp), "stream_response", <<>>)
    ELSE IF cmd_type = "get_status"
    THEN Result(s, "status_response", <<>>)
    ELSE Result(s, "error", <<>>)

\* control_websocket, lines 134-138: a command is received and handled.
CallControlCommand ==
    /\ sut = "service"
    /\ \E cmd_type \in ControlCommands, hw \in HwOutcomes, syn \in Outcomes,
          rel \in BOOLEAN, st \in Outcomes, sp \in Outcomes, rl \in Outcomes :
         LET r == Handle_control_command(svc, settings, cmd_type,
                      [hw |-> hw, syn |-> syn, rel |-> rel, st |-> st,
                       sp |-> sp, rl |-> rl])
         IN  /\ cmd_type = "start_stream" => ~ss.pending
             /\ r.s.open <= MaxOpen
             /\ svc' = r.s
             /\ ss' = IF r.ret = "Suspended"
                      THEN [pending |-> TRUE, preConn |-> ServiceConnected(svc),
                            preStream |-> ServiceStreaming(svc)]
                      ELSE ss
             /\ last' = Called(cmd_type, "service", r.ret,
                               ServiceConnected(svc), ServiceStreaming(svc),
                               0, 0, r.attempts)
    /\ UNCHANGED <<sideVars, procVars, settings, sut, devVars, ghostVars, frame>>

InitControl ==
    /\ sut = "service"
    /\ settings \in [ENABLE_SYNTHETIC_DATA : BOOLEAN, IS_PRODUCTION : BOOLEAN]
    /\ SessionsIdle
    /\ hrv = HRVInit
    /\ calc = NoCalc
    /\ tick = NoTick
    /\ work = NoWork
    /\ extracted = <<>>
    /\ clients = NoClients

NextControl ==
    \/ CallControlCommand
    \/ ServiceStartStreamingResume

SpecControl == InitControl /\ [][NextControl]_vars



(***************************************************************************)
(* The tick loop.                                                          *)
(***************************************************************************)
MetricFields == {"heart_rate", "eda_level", "temperature", "stress_score"}

\* C19: the loop, once entered, is never left, and what a tick delivers to a
\* client still connected is a heartbeat or a snapshot that has its metric
\* fields, those of a computation that failed holding 0.
C19_TickDeliversDefaultsOrHeartbeat ==
    /\ tick.loop \in {"none", "running"}
    /\ (tick.loop = "running" /\ tick.message.type = "biometric_data") =>
            LET m == tick.message.metrics
            IN  /\ MetricFields \subseteq DOMAIN m
                /\ "ppg" \in tick.bad => m.heart_rate = 0
                /\ "eda" \in tick.bad => m.eda_level = 0
                /\ "temperature" \in tick.bad => m.temperature = 0


(***************************************************************************)
(* The bounded join.                                                       *)
(***************************************************************************)
StopStreamingOnSocketSession == last.op = "stop_streaming" /\ sut \in DevClasses

\* C20: stop_streaming() on EmotiBitDirect / EmotiBitOSC called while
\* streaming sets stop_event and clears the flag before it waits; while it
\* waits in join(timeout=2) its return is always possible, whatever the
\* worker does; and it completes normally with the flag false and the
\* signal set, the worker thread ended or not.
C20_StopStreamingBoundedJoin ==
    /\ (StopStreamingOnSocketSession /\ last.ret = "Joining") =>
            /\ pc.at = "stop_join"
            /\ dev.stop_event
            /\ ~dev.streaming
            /\ ENABLED DevJoinReturns
    /\ (StopStreamingOnSocketSession /\ last.ret = "Void") =>
            /\ pc.at = "idle"
            /\ ~dev.streaming
            /\ last.preStream => dev.stop_event

\* C20 witness: a stop_streaming() call that found the session streaming has
\* completed while a worker thread is still alive.
C20_StoppedWithWorkerAlive ==
    /\ StopStreamingOnSocketSession
    /\ last.ret = "Void"
    /\ last.preStream
    /\ pc.at = "idle"
    /\ \E i \in ThreadSlots : threads[i] # ThreadDead
    /\ ~dev.streaming


(***************************************************************************)
(* The heuristic classification of all_data['main'] (lines 363-387).       *)
(***************************************************************************)
\* A completed call that went through the heuristic loop.
HeuristicCall ==
    /\ calc.fn = "_extract_emotibit_sensors"
    /\ ~HasData(calc.arg.auxiliary)
    /\ ~HasData(calc.arg.ancillary)
    /\ HasData(calc.arg.main)

ClassifiedTypes == {"ppg", "eda", "temperature"}
ChannelsOf(a) == 0..(Shape0(a) - 1)
\* The channels of the frame the classifier gives type t.
ChannelsOfType(t) ==
    {ch \in ChannelsOf(calc.arg.main) :
        HeuristicType(ChannelTail(calc.arg.main, ch)) = t}
Lowest(S) == CHOOSE ch \in S : \A other \in S : ch <= other

\* C29: in the heuristic classification no two sensor types hold the same
\* channel's samples, and each sensor type holds the samples of the first
\* channel classified as that type, whatever later channels are classified
\* the same way (first-claimed wins).
C29_FirstClaimedWins ==
    HeuristicCall =>
        /\ \A t, u \in ClassifiedTypes :
              (t # u /\ calc.out[t] # <<>>) => calc.out[t] # calc.out[u]
        /\ \A t \in ClassifiedTypes :
              calc.out[t] = IF ChannelsOfType(t) = {} THEN <<>>
                            ELSE ChannelTail(calc.arg.main,
                                             Lowest(ChannelsOfType(t)))

\* Witness of C29: two channels of different samples were both PPG-like and
\* the sensor list holds the earlier one's.
C29_LaterChannelRefused ==
    /\ HeuristicCall
    /\ \E ch, later \in ChannelsOfType("ppg") :
          /\ ch < later
          /\ ChannelTail(calc.arg.main, ch) # ChannelTail(calc.arg.main, later)
          /\ calc.out.ppg = ChannelTail(calc.arg.main, ch)

\* The mean of the samples lies in [lo, hi] / in (lo, hi).
MeanWithin(ch_data, lo, hi) ==
    /\ lo * Len(ch_data) <= SumSeq(ch_data)
    /\ SumSeq(ch_data) <= hi * Len(ch_data)
MeanStrictlyWithin(ch_data, lo, hi) ==
    /\ lo * Len(ch_data) < SumSeq(ch_data)
    /\ SumSeq(ch_data) < hi * Len(ch_data)
AbsMeanWithin(ch_data, lo, hi) ==
    MeanWithin(ch_data, lo, hi) \/ MeanWithin(ch_data, -hi, -lo)
AbsMeanStrictlyWithin(ch_data, lo, hi) ==
    MeanStrictlyWithin(ch_data, lo, hi) \/ MeanStrictlyWithin(ch_data, -hi, -lo)

\* The samples of channel 0, the channel classified before any type is taken.
FirstChannel == ChannelTail(calc.arg.main, 0)
\* The sensor lists of the result that hold the first channel's samples.
FirstChannelIn == {t \in ClassifiedTypes : calc.out[t] = FirstChannel}

\* C30 as stated: the first channel is PPG if |mean| is in [1000, 100000],
\* else EDA if its mean is in [0, 10], else temperature if its mean is in
\* [20, 45], every interval closed.
C30_ClosedIntervals ==
    HeuristicCall =>
        FirstChannelIn =
            IF AbsMeanWithin(FirstChannel, 1000, 100000) THEN {"ppg"}
            ELSE IF MeanWithin(FirstChannel, 0, 10) THEN {"eda"}
            ELSE IF MeanWithin(FirstChannel, 20, 45) THEN {"temperature"}
            ELSE {}

\* C30, amended: the first channel is PPG if |mean| is strictly between 1000
\* and 100000, else EDA if its mean is in [0, 10], else temperature if its
\* mean is in [20, 45]; a mean of exactly 1000 or 100000 (either sign) gets
\* no sensor type.
C30_OpenPpgInterval ==
    HeuristicCall =>
        FirstChannelIn =
            IF AbsMeanStrictlyWithin(FirstChannel, 1000, 100000) THEN {"ppg"}
            ELSE IF MeanWithin(FirstChannel, 0, 10) THEN {"eda"}
            ELSE IF MeanWithin(FirstChannel, 20, 45) THEN {"temperature"}
            ELSE {}

\* Witness of C30: a first channel whose mean is exactly 1000 was classified
\* and is in no sensor list.
C30_Mean1000Unclassified ==
    /\ HeuristicCall
    /\ MeanWithin(FirstChannel, 1000, 1000)
    /\ FirstChannelIn = {}


LatestExtract == extracted[Len(extracted)]
WentThroughHeuristic(c) ==
    /\ ~HasData(c.all_data.auxiliary)
    /\ ~HasData(c.all_data.ancillary)
    /\ HasData(c.all_data.main)
UnclassifiedChannels ==
    IF extracted = <<>> \/ ~WentThroughHeuristic(LatestExtract) THEN {}
    ELSE {ch \in ChannelsOf(LatestExtract.all_data.main) :
            HeuristicType(ChannelTail(LatestExtract.all_data.main, ch)) = "none"}

\* C22: a call that meets a channel it can give no sensor type puts that
\* channel's samples in no list, and counts it: some field of the service
\* (the count of unclassified channels) changes in the call.
C22_UnclassifiedDroppedAndCounted ==
    [][(extracted' # extracted /\ UnclassifiedChannels' # {}) =>
          /\ \A ch \in UnclassifiedChannels', t \in ClassifiedTypes :
                LatestExtract'.ret[t] #
                    ChannelTail(LatestExtract'.all_data.main, ch)
          /\ svc' # svc]_vars


(***************************************************************************)
(* The heart rate of a snapshot.                                           *)
(***************************************************************************)
\* The PPG block of process_realtime_data set heart_rate from ppg_std and
\* ppg_mean (lines 134-144); the method has no other source of a heart rate.
EstimatedHeartRate ==
    /\ Snapshot
    /\ calc.arg.ppg # <<>>
    /\ "ppg" \notin calc.arg.bad

\* The entries of a snapshot that are measurements or bookkeeping.
MeasuredEntries ==
    {"status", "timestamp", "heart_rate", "ppg_signal_quality", "ppg_mean",
     "eda_level", "eda_variation", "temperature", "stress_score", "sdnn",
     "rmssd", "data_info"}

\* C24: a snapshot whose heart rate was estimated from the PPG signal's
\* variability says so: it has an entry besides its measurements that flags
\* the estimate, or a status other than the plain "processing".
C24_EstimateIsFlagged ==
    EstimatedHeartRate =>
        \/ DOMAIN calc.out \ MeasuredEntries # {}
        \/ calc.out.status # "processing"


(***************************************************************************)
(* The worker threads of a socket session.                                 *)
(***************************************************************************)
AliveWorkers == {i \in ThreadSlots : threads[i] # ThreadDead}

\* C25: at most one worker thread of the session is alive at any time,
\* whatever sequence of start_streaming / stop_streaming calls led there.
C25_AtMostOneWorkerAlive == Cardinality(AliveWorkers) <= 1

\* C26: a worker that is alive while the stop event is set exits in the end.
C26_SignalledWorkerExits ==
    \A i \in WorkerSlots :
        (threads[i] # ThreadDead /\ dev.stop_event) ~> (threads[i] = ThreadDead)

\* The session is streaming and no worker is alive although the loop
\* condition holds (stop event clear, connected, socket there): the worker
\* was ended by the break of its except branch, on a socket or I/O error.
WorkerLostToError ==
    /\ dev.streaming
    /\ WorkerGoesOn(dev)
    /\ AliveWorkers = {}

\* C27: the session does not stay streaming once an error has ended its
\* worker: whenever the streaming flag is set and the worker was lost to an
\* error, the flag is cleared in the end.
C27_NoStreamingWithoutWorker ==
    WorkerLostToError ~> ~dev.streaming


(***************************************************************************)
(* The parser, line by line.                                               *)
(***************************************************************************)
\* Too few fields, or a timestamp or value that is no number.
Malformed(line) == line.parts < 3 \/ ~line.numeric
\* Worker i is done with the line in hand in this step.
Consumes(i) ==
    /\ threads[i] = ThreadParse
    /\ work[i].lines # <<>>
    /\ work'[i].lines = Tail(work[i].lines)

\* C21: the step in which a worker is done with a malformed line changes no
\* sensor deque and not the timestamps deque and leaves the worker running;
\* the step in which it is done with a well-formed line of a sensor type
\* puts that line's sample last in the type's deque, wherever the line
\* stands in its packet.
C21_MalformedLineChangesNothing ==
    [][\A i \in WorkerSlots :
          Consumes(i) =>
             LET line == Head(work[i].lines)
             IN  /\ Malformed(line) =>
                       /\ sensor_data' = sensor_data
                       /\ threads'[i] # ThreadDead
                 /\ (~Malformed(line) /\ line.tag \in SensorTypes) =>
                       /\ sensor_data'[line.tag] # <<>>
                       /\ sensor_data'[line.tag][Len(sensor_data'[line.tag])]
                             = work[i].current_time]_vars

NonDecreasing(q) == \A a, b \in 1..Len(q) : a < b => q[a] <= q[b]

\* C28: the samples of each sensor deque, and those of the frame that
\* get_current_data() builds from the deques, stand in non-decreasing order
\* of their timestamps.
C28_SamplesInTimestampOrder ==
    \A t \in SensorTypes :
        /\ NonDecreasing(sensor_data[t])
        /\ NonDecreasing(Dev_get_current_data(dev, sensor_data).frame[t])


(***************************************************************************)
(* The two stages of the classification.                                   *)
(***************************************************************************)
\* A completed call whose auxiliary preset gave the PPG list while the
\* ancillary preset gave nothing for EDA and temperature.
PpgFromPresetOnly ==
    /\ calc.fn = "_extract_emotibit_sensors"
    /\ HasData(calc.arg.auxiliary)
    /\ ~HasData(calc.arg.ancillary)
    /\ calc.out.ppg # <<>>
\* The main array of the call has a channel the heuristic gives type t.
MainOffers(t) == HasData(calc.arg.main) /\ ChannelsOfType(t) # {}

\* C31 as stated: when the presets give PPG and nothing for EDA (or for
\* temperature), the heuristic stage still fills that type from a channel
\* of the main array that fits it.
C31_HeuristicFillsMissingType ==
    PpgFromPresetOnly =>
        \A t \in {"eda", "temperature"} : MainOffers(t) => calc.out[t] # <<>>

\* C31, amended: the heuristic stage runs only when the presets gave none
\* of PPG, EDA and temperature; once the presets gave PPG, EDA and
\* temperature stay empty whatever the main array holds, and the PPG list
\* is the preset's.
C31_HeuristicOnlyWhenAllEmpty ==
    PpgFromPresetOnly =>
        /\ calc.out.eda = <<>>
        /\ calc.out.temperature = <<>>
        /\ calc.out.ppg = ChannelTail(calc.arg.auxiliary, 0)

\* Witness of C31: PPG came from the preset, the main array had an EDA-like
\* channel, and the EDA list is empty.
C31_EdaLeftEmpty ==
    /\ PpgFromPresetOnly
    /\ MainOffers("eda")
    /\ calc.out.eda = <<>>


(***************************************************************************)
(* The frames of get_current_data.                                         *)
(***************************************************************************)
\* C32: in the frame get_current_data() returned, the timestamp list is
\* parallel to every non-empty sensor list: same length, and entry by entry
\* the timestamp of that list's sample (a stored sample is identified with
\* the timestamp stored for it).
C32_TimestampsParallel ==
    \A t \in SensorTypes : frame[t] # <<>> => frame.timestamp = frame[t]

\* A step that is a get_current_data() call on a socket session.
PollStep ==
    /\ last'.op = "get_current_data"
    /\ last' # last \/ frame' # frame \/ delivered' # delivered

\* q is the last n entries of buffer, or all of them when there are fewer.
IsTailOf(q, buffer, n) ==
    /\ Len(q) = IF Len(buffer) < n THEN Len(buffer) ELSE n
    /\ \A k \in 1..Len(q) : q[k] = buffer[Len(buffer) - Len(q) + k]

\* C33: a get_current_data() call leaves every deque as it was, and the
\* frame it returns holds, for each sensor type, the last Window samples of
\* the type's deque, or all of them when there are fewer.
C33_LastSamplesBuffersUntouched ==
    [][PollStep =>
          /\ sensor_data' = sensor_data
          /\ last'.ret = "Frame" =>
                \A t \in SensorTypes :
                    IsTailOf(frame'[t], sensor_data[t], Window)]_vars

\* Witness of C33: a call returned a frame from a deque that held more
\* samples than a frame takes, and the deque still holds them.
C33_FrameFromFullerBuffer ==
    /\ last.op = "get_current_data"
    /\ last.ret = "Frame"
    /\ \E t \in SensorTypes :
          /\ Len(sensor_data[t]) > Window
          /\ Len(frame[t]) = Window
          /\ frame[t][Window] = sensor_data[t][Len(sensor_data[t])]


(***************************************************************************)
(* The realtime loop of a client that was removed.                         *)
(***************************************************************************)
\* C35: once a send has failed and the realtime client was removed from
\* manager.active_connections, the client's loop eventually stops running.
C35_RemovedClientLoopStops ==
    (tick.loop = "running" /\ ~tick.client) ~> (tick.loop # "running")


(***************************************************************************)
(* Client ids.                                                             *)
(***************************************************************************)
\* A client that is connected: its handler runs and its remote end is there.
LiveClient(c, w) ==
    c.handlers[w].at = "running" /\ c.handlers[w].peer = "open"

DistinctClientIds ==
    \A v, w \in Sockets :
        (v # w /\ LiveClient(clients, v) /\ LiveClient(clients, w)) =>
            clients.handlers[v].client_id # clients.handlers[w].client_id

\* An entry that holds a connected client's socket is not given to another
\* socket.
NoOverwrite ==
    \A k \in ClientIds :
        LET v == clients.active_connections[k]
        IN  (v # 0 /\ LiveClient(clients, v)) =>
                clients'.active_connections[k] \in {v, 0}

\* An entry is not removed while the client whose socket it holds stays
\* connected.
NoForeignRemoval ==
    \A k \in ClientIds :
        LET v == clients.active_connections[k]
        IN  (v # 0 /\ clients'.active_connections[k] = 0) =>
                ~LiveClient(clients', v)

\* C34: clients connected at the same time hold distinct client ids;
\* registering a client never overwrites the entry of another connected
\* client, and removing a client never removes the entry of another.
C34_ClientIdsDistinct ==
    []DistinctClientIds /\ [][NoOverwrite /\ NoForeignRemoval]_vars


(***************************************************************************)
(* What start_streaming() reports.                                         *)
(***************************************************************************)
\* C36: a start_streaming() call that has returned reported True exactly
\* when the session's streaming flag is set on its return.
C36_ReportsStreamingFlag ==
    (last.op = "start_streaming" /\ last.ret \in {"True", "False"}) =>
        ((last.ret = "True") <=> StreamingFlag)


(***************************************************************************)
(* The streaming flag and the board handle of EmotiBitService.             *)
(***************************************************************************)
\* C37: in every state of EmotiBitService, is_streaming is true only while
\* board is not None.
C37_StreamingOnlyWithBoard ==
    svc.is_streaming => svc.board # "None"


(***************************************************************************)
(* The addresses EmotiBitDirect.connect() tries.                           *)
(***************************************************************************)
\* C38: a connect() call of EmotiBitDirect connects to each candidate
\* address at most once, and when it returns True the session holds exactly
\* one socket that was opened and not closed.
C38_EachAddressOnceOneSocket ==
    (last.op = "connect" /\ last.backend = "direct") =>
        /\ \A i, j \in DOMAIN last.attempts :
              i # j => last.attempts[i].kind # last.attempts[j].kind
        /\ last.ret = "True" => dev.open = 1


(***************************************************************************)
(* Control commands that only report.                                      *)
(***************************************************************************)
\* C39: a get_status command and a command of unknown type leave
\* EmotiBitService as it was: the board handle, the streaming flag and the
\* kind of backend (board id, mock mode) are the same after the command as
\* before it.
C39_StatusAndUnknownChangeNothing ==
    [][last'.op \in {"get_status", "unknown"} =>
          /\ svc'.board = svc.board
          /\ svc'.is_streaming = svc.is_streaming
          /\ svc'.board_id = svc.board_id
          /\ svc'.is_mock_mode = svc.is_mock_mode
          /\ svc'.open = svc.open]_vars

\* Witness of C39: a command of unknown type was answered with an error on
\* a session that is streaming, and the session still is.
C39_UnknownOnStreamingSession ==
    /\ last.op = "unknown"
    /\ last.ret = "error"
    /\ last.preStream
    /\ ServiceStreaming(svc)

=============================================================================
